---------------------------- MODULE Spec2Model ----------------------------
(***************************************************************************)
(* Model of the BeyondMetrics scoring engine and metric pipeline.          *)
(*                                                                         *)
(*   beyond_flows/scorers/agentic_score.py   the Readiness Scorer          *)
(*   beyond_metrics/pipeline.py              BeyondMetricsPipeline.run     *)
(*                                                                         *)
(* Numbers.  Python floats are modelled as exact rationals n/d (d > 0, in  *)
(* lowest terms) extended with +Infinity, -Infinity and NaN; None is a     *)
(* value of its own.  Comparisons and arithmetic follow IEEE-754 on these  *)
(* (every comparison with NaN is false, inf + -inf is NaN).  What the      *)
(* model abstracts from is the binary rounding error of a float operation. *)
(***************************************************************************)
EXTENDS Integers, Sequences, FiniteSets, TLC

-----------------------------------------------------------------------------
(* Python values *)

None == [t |-> "none", n |-> 0, d |-> 1]
NaN  == [t |-> "nan",  n |-> 0, d |-> 1]
Inf  == [t |-> "inf",  n |-> 0, d |-> 1]
NInf == [t |-> "ninf", n |-> 0, d |-> 1]

Abs(i) == IF i < 0 THEN -i ELSE i

RECURSIVE GCD(_, _)
GCD(a, b) == IF b = 0 THEN a ELSE GCD(b, a % b)

\* the float n/d, d > 0
Rat(n, d) ==
    LET g == GCD(Abs(n), d)
    IN [t |-> "num", n |-> n \div g, d |-> d \div g]

Num(i) == Rat(i, 1)

IsNone(x)   == x.t = "none"

\* sign of a float that is not NaN: -1, 0, 1
Sign(x) ==
    CASE x.t = "inf"  -> 1
      [] x.t = "ninf" -> -1
      [] OTHER        -> IF x.n > 0 THEN 1 ELSE IF x.n < 0 THEN -1 ELSE 0

\* a < b on floats
Lt(a, b) ==
    CASE a.t = "nan" \/ b.t = "nan" -> FALSE
      [] a.t = "inf"                -> FALSE
      [] b.t = "ninf"               -> FALSE
      [] a.t = "ninf"               -> TRUE
      [] b.t = "inf"                -> TRUE
      [] OTHER                      -> a.n * b.d < b.n * a.d

\* a <= b on floats
Le(a, b) ==
    CASE a.t = "nan" \/ b.t = "nan" -> FALSE
      [] OTHER                      -> Lt(a, b) \/ a = b

Gt(a, b) == Lt(b, a)
Ge(a, b) == Le(b, a)

\* a + b on floats
Add(a, b) ==
    CASE a.t = "nan" \/ b.t = "nan"                 -> NaN
      [] a.t = "inf"  /\ b.t = "ninf"               -> NaN
      [] a.t = "ninf" /\ b.t = "inf"                -> NaN
      [] a.t \in {"inf", "ninf"}                    -> a
      [] b.t \in {"inf", "ninf"}                    -> b
      [] OTHER -> Rat(a.n * b.d + b.n * a.d, a.d * b.d)

\* -a on floats
Neg(a) ==
    CASE a.t = "nan"  -> NaN
      [] a.t = "inf"  -> NInf
      [] a.t = "ninf" -> Inf
      [] OTHER        -> Rat(-a.n, a.d)

Sub(a, b) == Add(a, Neg(b))

\* a * b on floats
Mul(a, b) ==
    CASE a.t = "nan" \/ b.t = "nan" -> NaN
      [] a.t = "num" /\ b.t = "num" -> Rat(a.n * b.n, a.d * b.d)
      [] OTHER -> LET s == Sign(a) * Sign(b)
                  IN IF s = 0 THEN NaN ELSE IF s > 0 THEN Inf ELSE NInf

\* a / k on floats, k a positive integer
DivInt(a, k) ==
    CASE a.t = "num" -> Rat(a.n, a.d * k)
      [] OTHER       -> a

\* max(a, b) and min(a, b) as Python's builtins compute them on two
\* arguments: max returns the first unless the second is greater, min the
\* first unless the second is smaller
PyMax(a, b) == IF Gt(b, a) THEN b ELSE a
PyMin(a, b) == IF Lt(b, a) THEN b ELSE a

\* floor of a rational n/d, d > 0  (TLA+ \div rounds towards -infinity)
Floor(n, d) == n \div d

\* round(x, 2) of a finite float: the nearest multiple of 1/100, a tie
\* going to the even multiple
Round2(x) ==
    LET num == x.n * 100
        q   == Floor(num, x.d)
        r2  == 2 * (num - q * x.d)
        k   == IF r2 < x.d THEN q
               ELSE IF r2 > x.d THEN q + 1
               ELSE IF q % 2 = 0 THEN q ELSE q + 1
    IN Rat(k, 100)

-----------------------------------------------------------------------------
(* Helpers of agentic_score.py *)

\* _is_nan: True for None, for the float NaN and for the string 'NaN'
\* (which the model does not tell apart from the float NaN)
_is_nan(x) == x.t \in {"none", "nan"}

\* the loop of _safe_mean: the entries that are neither None nor NaN
RECURSIVE SafeMeanNums(_)
SafeMeanNums(values) ==
    IF values = <<>> THEN <<>>
    ELSE LET v == Head(values)
         IN IF IsNone(v) \/ _is_nan(v)
            THEN SafeMeanNums(Tail(values))
            ELSE <<v>> \o SafeMeanNums(Tail(values))

\* sum(nums), from the left, starting at 0
RECURSIVE PySum(_)
PySum(nums) ==
    IF nums = <<>> THEN Num(0)
    ELSE Add(PySum(SubSeq(nums, 1, Len(nums) - 1)), nums[Len(nums)])

_safe_mean(values) ==
    LET nums == SafeMeanNums(values)
    IN IF nums = <<>> THEN None
       ELSE DivInt(PySum(nums), Len(nums))

\* mutant of _clamp: the upper bound forgotten
ClampNoUpper(value) == PyMax(Num(0), value)
_clamp(value) == PyMax(Num(0), PyMin(Num(10), value))

\* a Python list and a Python dict (a mapping from string keys to values)
List(items) == [t |-> "list", items |-> items]
Dict(f)     == [t |-> "dict", f |-> f]
EmptyDict   == Dict(<<>>)

IsDict(x) == x.t = "dict"
IsList(x) == x.t = "list"
HasKey(x, k) == k \in DOMAIN x.f

\* dict.get(k), default None
DictGet(x, k) == IF HasKey(x, k) THEN x.f[k] ELSE None

\* dict.get(k, {})
DictGetOrEmpty(x, k) == IF HasKey(x, k) THEN x.f[k] ELSE EmptyDict

\* _get_nested(d, k1, k2), default None
_get_nested(dd, k1, k2) ==
    IF ~IsDict(dd) \/ ~HasKey(dd, k1) THEN None
    ELSE LET cur == dd.f[k1]
         IN IF ~IsDict(cur) \/ ~HasKey(cur, k2) THEN None
            ELSE cur.f[k2]

\* the loop of _normalize_numeric_sequence: int and float entries
\* (NaN and the infinities included) are kept, None raises TypeError in
\* float() and is dropped
RECURSIVE NormalizeLoop(_)
NormalizeLoop(seq) ==
    IF seq = <<>> THEN <<>>
    ELSE LET v == Head(seq)
         IN IF IsNone(v)
            THEN NormalizeLoop(Tail(seq))
            ELSE <<v>> \o NormalizeLoop(Tail(seq))

\* mutant of _normalize_numeric_sequence: only the bare list is read
NormalizeLegacyOnly(field) ==
    IF IsNone(field) \/ ~IsList(field) THEN None
    ELSE LET out == NormalizeLoop(field.items)
         IN IF out = <<>> THEN None ELSE List(out)

\* _normalize_numeric_sequence: a list of numbers, or None
_normalize_numeric_sequence(field) ==
    IF IsNone(field) THEN None
    ELSE LET seq == IF IsDict(field) /\ HasKey(field, "values")
                    THEN field.f["values"]
                    ELSE field
         IN IF ~IsList(seq) THEN None
            ELSE LET out == NormalizeLoop(seq.items)
                 IN IF out = <<>> THEN None ELSE List(out)

-----------------------------------------------------------------------------
(* Scoring functions.  A sub-score record is {score, computed, reason};    *)
(* the `details` entry, a diagnostic echo of the inputs, is left out.      *)

SubScore(score, computed, reason) ==
    [score |-> score, computed |-> computed, reason |-> reason]

\* `not x` for an Optional[List]
Falsy(x) == IsNone(x) \/ (IsList(x) /\ x.items = <<>>)

\* mutant of RepetitividadBand: the upper threshold taken inclusive
RepetitividadBandGe80(avg_volume) ==
    IF Ge(avg_volume, Num(80))
    THEN SubScore(Num(10), TRUE, "alto_volumen")
    ELSE IF Ge(avg_volume, Num(40))
    THEN SubScore(Num(5), TRUE, "volumen_medio")
    ELSE SubScore(Num(0), TRUE, "volumen_bajo")

\* the threshold chain of score_repetitividad
RepetitividadBand(avg_volume) ==
    IF Gt(avg_volume, Num(80))
    THEN SubScore(Num(10), TRUE, "alto_volumen")
    ELSE IF Ge(avg_volume, Num(40))
    THEN SubScore(Num(5), TRUE, "volumen_medio")
    ELSE SubScore(Num(0), TRUE, "volumen_bajo")

score_repetitividad(volume_by_skill) ==
    IF Falsy(volume_by_skill)
    THEN SubScore(None, FALSE, "sin_datos_volumen")
    ELSE LET avg_volume == _safe_mean(volume_by_skill.items)
         IN IF IsNone(avg_volume)
            THEN SubScore(None, FALSE, "volumen_no_numerico")
            ELSE RepetitividadBand(avg_volume)

\* ratio / esc after the two "Normalizamos" blocks: None or a float
Normalized(x) == IF IsNone(x) \/ _is_nan(x) THEN None ELSE x

\* mutant of PredictibilidadRule: the medium bands taken exclusive
PredictibilidadRuleOpenBands(ratio, esc) ==
    IF Lt(ratio, Rat(3, 2)) /\ Lt(esc, Num(10))
    THEN SubScore(Num(10), TRUE, "alta_predictibilidad")
    ELSE IF (Lt(Rat(3, 2), ratio) /\ Lt(ratio, Num(2)))
            \/ (Lt(Num(10), esc) /\ Lt(esc, Num(20)))
    THEN SubScore(Num(5), TRUE, "predictibilidad_media")
    ELSE IF Gt(ratio, Num(2)) /\ Gt(esc, Num(20))
    THEN SubScore(Num(0), TRUE, "baja_predictibilidad")
    ELSE SubScore(Num(3), TRUE, "caso_intermedio")

\* the rule chain of score_predictibilidad when ratio and esc are both known
PredictibilidadRule(ratio, esc) ==
    IF Lt(ratio, Rat(3, 2)) /\ Lt(esc, Num(10))
    THEN SubScore(Num(10), TRUE, "alta_predictibilidad")
    ELSE IF (Le(Rat(3, 2), ratio) /\ Le(ratio, Num(2)))
            \/ (Le(Num(10), esc) /\ Le(esc, Num(20)))
    THEN SubScore(Num(5), TRUE, "predictibilidad_media")
    ELSE IF Gt(ratio, Num(2)) /\ Gt(esc, Num(20))
    THEN SubScore(Num(0), TRUE, "baja_predictibilidad")
    ELSE SubScore(Num(3), TRUE, "caso_intermedio")

score_predictibilidad(aht_ratio, escalation_rate) ==
    IF IsNone(aht_ratio) /\ IsNone(escalation_rate)
    THEN SubScore(None, FALSE, "sin_datos")
    ELSE LET ratio == Normalized(aht_ratio)
             esc   == Normalized(escalation_rate)
         IN IF IsNone(ratio) /\ IsNone(esc)
            THEN SubScore(None, FALSE, "sin_datos")
            ELSE IF ~IsNone(ratio) /\ ~IsNone(esc)
            THEN PredictibilidadRule(ratio, esc)
            ELSE SubScore(Num(3), TRUE, "datos_parciales")

\* the loop of score_estructuracion: the entries that are not _is_nan
RECURSIVE ChannelValues(_)
ChannelValues(seq) ==
    IF seq = <<>> THEN <<>>
    ELSE LET x == Head(seq)
         IN IF _is_nan(x)
            THEN ChannelValues(Tail(seq))
            ELSE <<x>> \o ChannelValues(Tail(seq))

\* max(values) of a non-empty list, scanning from the left
RECURSIVE PyMaxSeq(_)
PyMaxSeq(values) ==
    IF Len(values) = 1 THEN values[1]
    ELSE PyMax(PyMaxSeq(SubSeq(values, 1, Len(values) - 1)), values[Len(values)])

score_estructuracion(channel_distribution_pct) ==
    IF Falsy(channel_distribution_pct)
    THEN SubScore(None, FALSE, "sin_datos_canal")
    ELSE LET values == ChannelValues(channel_distribution_pct.items)
         IN IF values = <<>>
            THEN SubScore(None, FALSE, "canales_no_numericos")
            ELSE LET max_share == PyMaxSeq(values)
                 IN IF Gt(max_share, Num(60))
                    THEN SubScore(Num(10), TRUE, "alta_proporcion_texto")
                    ELSE IF Ge(max_share, Num(30))
                    THEN SubScore(Num(5), TRUE, "proporcion_texto_media")
                    ELSE SubScore(Num(0), TRUE, "baja_proporcion_texto")

\* mutant of ComplejidadAdj: one point per 10 points of escalation
ComplejidadAdjTenth(esc) ==
    IF IsNone(esc) THEN Num(0) ELSE Neg(DivInt(esc, 10))

\* the escalation adjustment of score_complejidad
ComplejidadAdj(esc) ==
    IF IsNone(esc) THEN Num(0) ELSE Neg(DivInt(esc, 5))

score_complejidad(aht_ratio, escalation_rate) ==
    LET ratio == Normalized(aht_ratio)
        esc   == Normalized(escalation_rate)
    IN IF IsNone(ratio) /\ IsNone(esc)
       THEN SubScore(None, FALSE, "sin_datos")
       ELSE LET base == IF IsNone(ratio) THEN Num(5)
                        ELSE _clamp(Mul(DivInt(Sub(Num(3), ratio), 2), Num(10)))
                adj  == ComplejidadAdj(esc)
            IN SubScore(_clamp(Add(base, adj)), TRUE, "complejidad_inversa")

\* mutant of EstabilidadBand: the bands closed on the right
EstabilidadBandClosed(r) ==
    IF Le(r, Num(3)) THEN SubScore(Num(10), TRUE, "muy_estable")
    ELSE IF Le(r, Num(5)) THEN SubScore(Num(7), TRUE, "estable_moderado")
    ELSE IF Le(r, Num(7)) THEN SubScore(Num(3), TRUE, "pico_pronunciado")
    ELSE SubScore(Num(0), TRUE, "muy_inestable")

\* the threshold chain of score_estabilidad
EstabilidadBand(r) ==
    IF Lt(r, Num(3)) THEN SubScore(Num(10), TRUE, "muy_estable")
    ELSE IF Lt(r, Num(5)) THEN SubScore(Num(7), TRUE, "estable_moderado")
    ELSE IF Lt(r, Num(7)) THEN SubScore(Num(3), TRUE, "pico_pronunciado")
    ELSE SubScore(Num(0), TRUE, "muy_inestable")

score_estabilidad(peak_offpeak_ratio) ==
    IF IsNone(peak_offpeak_ratio) \/ _is_nan(peak_offpeak_ratio)
    THEN SubScore(None, FALSE, "sin_datos_peak_offpeak")
    ELSE EstabilidadBand(peak_offpeak_ratio)

score_roi(annual_savings) ==
    IF IsNone(annual_savings) \/ _is_nan(annual_savings)
    THEN SubScore(None, FALSE, "sin_datos_ahorro")
    ELSE LET savings == annual_savings
         IN IF Gt(savings, Num(100000)) THEN SubScore(Num(10), TRUE, "roi_alto")
            ELSE IF Ge(savings, Num(10000)) THEN SubScore(Num(5), TRUE, "roi_medio")
            ELSE SubScore(Num(0), TRUE, "roi_bajo")

\* mutant of classify_agentic_score: the thresholds taken exclusive
ClassifyStrict(score) ==
    IF IsNone(score) THEN "NO_DATA"
    ELSE IF Gt(score, Num(8)) THEN "AUTOMATE"
    ELSE IF Gt(score, Num(5)) THEN "ASSIST"
    ELSE IF Gt(score, Num(3)) THEN "AUGMENT"
    ELSE "HUMAN_ONLY"

\* the label of classify_agentic_score
classify_agentic_score(score) ==
    IF IsNone(score) THEN "NO_DATA"
    ELSE IF Ge(score, Num(8)) THEN "AUTOMATE"
    ELSE IF Ge(score, Num(5)) THEN "ASSIST"
    ELSE IF Ge(score, Num(3)) THEN "AUGMENT"
    ELSE "HUMAN_ONLY"

-----------------------------------------------------------------------------
(* AgenticScorer *)

\* AgenticScorer.__init__: self.base_weights, in insertion order
SubScoreNames ==
    << "repetitividad", "predictibilidad", "estructuracion",
       "complejidad", "estabilidad", "roi" >>

base_weights ==
    [repetitividad   |-> Rat(25, 100),
     predictibilidad |-> Rat(20, 100),
     estructuracion  |-> Rat(15, 100),
     complejidad     |-> Rat(15, 100),
     estabilidad     |-> Rat(10, 100),
     roi             |-> Rat(15, 100)]

\* a / b on finite floats, b > 0
Div(a, b) == Rat(a.n * b.d, a.d * b.n)

\* mutant of EffectiveWeights: every base weight, computed or not
EffectiveWeightsAll(sub_scores) == base_weights

\* the first loop of compute_from_data: the base weight of every
\* sub-score whose `computed` is true
EffectiveWeights(sub_scores) ==
    [name \in {x \in DOMAIN base_weights : sub_scores[x].computed}
        |-> base_weights[name]]

\* sum(effective_weights.values()), in insertion order
RECURSIVE SumWeights(_, _)
SumWeights(weights, i) ==
    IF i = 0 THEN Num(0)
    ELSE LET name == SubScoreNames[i]
         IN IF name \in DOMAIN weights
            THEN Add(SumWeights(weights, i - 1), weights[name])
            ELSE SumWeights(weights, i - 1)

NormalizedWeights(sub_scores) ==
    LET effective_weights      == EffectiveWeights(sub_scores)
        total_effective_weight == SumWeights(effective_weights, Len(SubScoreNames))
    IN IF Gt(total_effective_weight, Num(0))
       THEN [name \in DOMAIN effective_weights
                |-> Div(effective_weights[name], total_effective_weight)]
       ELSE <<>>

\* `x or 0.0`
OrZero(x) == IF IsNone(x) \/ x = Num(0) THEN Num(0) ELSE x

\* mutant of Accumulate: the base weight used in place of the normalized one
RECURSIVE AccumulateBase(_, _, _)
AccumulateBase(sub_scores, normalized_weights, i) ==
    IF i = 0 THEN Num(0)
    ELSE LET name == SubScoreNames[i]
             dim  == sub_scores[name]
             prev == AccumulateBase(sub_scores, normalized_weights, i - 1)
         IN IF ~dim.computed THEN prev
            ELSE Add(prev, Mul(OrZero(dim.score), base_weights[name]))

\* the second loop of compute_from_data: acc after the first i sub-scores
RECURSIVE Accumulate(_, _, _)
Accumulate(sub_scores, normalized_weights, i) ==
    IF i = 0 THEN Num(0)
    ELSE LET name == SubScoreNames[i]
             dim  == sub_scores[name]
             prev == Accumulate(sub_scores, normalized_weights, i - 1)
         IN IF ~dim.computed THEN prev
            ELSE LET w == IF name \in DOMAIN normalized_weights
                          THEN normalized_weights[name] ELSE Num(0)
                 IN Add(prev, Mul(OrZero(dim.score), w))

FinalScore(sub_scores, normalized_weights) ==
    IF DOMAIN normalized_weights = {} THEN None
    ELSE Round2(Accumulate(sub_scores, normalized_weights, Len(SubScoreNames)))

\* the six sub-scores compute_from_data derives from the result tree
SubScores(data) ==
    LET volumetry == DictGetOrEmpty(data, "volumetry")
        op        == DictGetOrEmpty(data, "operational_performance")
        econ      == DictGetOrEmpty(data, "economy_costs")
        volume_by_skill ==
            _normalize_numeric_sequence(DictGet(volumetry, "volume_by_skill"))
        channel_distribution_pct ==
            _normalize_numeric_sequence(DictGet(volumetry, "channel_distribution_pct"))
        peak_offpeak_ratio == DictGet(volumetry, "peak_offpeak_ratio")
        aht_ratio       == _get_nested(op, "aht_distribution", "p90_p50_ratio")
        escalation_rate == DictGet(op, "escalation_rate")
        annual_savings  == _get_nested(econ, "potential_savings", "annual_savings")
    IN [repetitividad   |-> score_repetitividad(volume_by_skill),
        predictibilidad |-> score_predictibilidad(aht_ratio, escalation_rate),
        estructuracion  |-> score_estructuracion(channel_distribution_pct),
        complejidad     |-> score_complejidad(aht_ratio, escalation_rate),
        estabilidad     |-> score_estabilidad(peak_offpeak_ratio),
        roi             |-> score_roi(annual_savings)]

\* how a call ends: with a value, or with an exception
Returned(v) == [t |-> "return", v |-> v]
Raised(exc) == [t |-> "raise", v |-> exc]

\* the record compute_from_data returns under the key "agentic_readiness"
\* (its constant `version` and `metadata` entries are left out)
AgenticReadiness(data) ==
    LET sub_scores         == SubScores(data)
        normalized_weights == NormalizedWeights(sub_scores)
        final_score        == FinalScore(sub_scores, normalized_weights)
    IN [final_score    |-> final_score,
        classification |-> classify_agentic_score(final_score),
        weights        |-> [base_weights       |-> base_weights,
                            normalized_weights |-> normalized_weights],
        sub_scores     |-> sub_scores]

\* mutant of compute_from_data: the three dimensions read as data[key]
ComputeFromDataIndexing(data) ==
    IF \E k \in {"volumetry", "operational_performance", "economy_costs"} :
          ~HasKey(data, k)
    THEN Raised("KeyError")
    ELSE IF \/ ~IsDict(data.f["volumetry"])
            \/ ~IsDict(data.f["operational_performance"])
    THEN Raised("AttributeError")
    ELSE Returned(Dict([agentic_readiness |-> AgenticReadiness(data)]))

\* AgenticScorer.compute_from_data.  `volumetry.get` and `op.get` raise
\* AttributeError when data holds something that is not a dict there;
\* econ is only read through _get_nested, which accepts anything
compute_from_data(data) ==
    IF \/ ~IsDict(DictGetOrEmpty(data, "volumetry"))
       \/ ~IsDict(DictGetOrEmpty(data, "operational_performance"))
    THEN Raised("AttributeError")
    ELSE Returned(Dict([agentic_readiness |-> AgenticReadiness(data)]))

-----------------------------------------------------------------------------
(* Inputs of the scorer *)

\* longest list handed to a scoring function
MaxLen == 2
\* aht ratios 0, 1/4, .. MaxRatio4/4
MaxRatio4 == 14
\* escalation rates -5, -2.5, .. 2.5 * MaxEsc
MaxEsc == 10
\* peak/off-peak ratios 0, 1/2, .. MaxPeak2/2
MaxPeak2 == 15
\* per-skill volumes 0, 10, .. 10 * MaxVol10
MaxVol10 == 9
\* channel shares 0, 10, .. 10 * MaxPct10
MaxPct10 == 7

NonFinite == {None, NaN, Inf, NInf}

RatioArgs   == NonFinite \cup {Rat(n, 4) : n \in 0..MaxRatio4} \cup {Rat(6, 5)}
EscArgs     == NonFinite \cup {Rat(5 * n, 2) : n \in (-2)..MaxEsc} \cup {Num(5), Num(60)}
PeakArgs    == NonFinite \cup {Rat(n, 2) : n \in 0..MaxPeak2} \cup {Rat(13, 2)}
SavingsArgs == NonFinite \cup
               {Num(-1), Num(0), Num(9999), Num(10000), Num(10001), Num(50000),
                Num(100000), Num(100001), Num(150000)}
VolumeElems == NonFinite \cup {Num(10 * n) : n \in 0..MaxVol10} \cup {Num(45), Num(120)}
PctElems    == {None, NaN} \cup {Num(10 * n) : n \in 0..MaxPct10} \cup {Num(100)}
ScoreArgs   == {None} \cup {Rat(n, 100) : n \in {0, 299, 300, 301, 499, 500, 501,
                                                  799, 800, 801, 1000}}

\* the lists over elems of length at most MaxLen
ListsOver(elems) ==
    {List(items) : items \in UNION {[1..k -> elems] : k \in 0..MaxLen}}

\* a key that a dict does not hold (never a value inside a tree)
Absent == [t |-> "absent", n |-> 0, d |-> 1]

\* the dict with the entries of pairs that are not Absent
MkDict(pairs) ==
    Dict([k \in {x \in DOMAIN pairs : pairs[x] # Absent} |-> pairs[k]])

\* the format the pipeline gives a series: {"labels": [...], "values": [...]}
NewFormat(values) ==
    Dict([labels |-> List([i \in DOMAIN values |-> [t |-> "str", s |-> i]]),
          values |-> List(values)])

\* result trees: what each place the scorer reads may hold; the sequences
\* as bare lists and, some of them, in the format of the pipeline
TreeVolumeBySkill  == {Absent, None, NaN, List(<<>>), List(<<NaN>>),
                       List(<<Num(30)>>), List(<<Num(40), Num(50)>>),
                       List(<<Num(120), NaN>>),
                       NewFormat(<<>>), NewFormat(<<Num(40), Num(50)>>),
                       NewFormat(<<Num(120), NaN>>),
                       Dict([labels |-> List(<<>>)])}
TreeChannelDist    == {Absent, None, List(<<>>), List(<<NaN, NaN>>),
                       List(<<Num(20), Num(25)>>), List(<<Num(40), Num(60)>>),
                       List(<<Num(70), Num(30)>>),
                       NewFormat(<<>>), NewFormat(<<Num(20), Num(25)>>),
                       NewFormat(<<Num(70), Num(30)>>)}
TreePeak           == {Absent, None, NaN, Num(2), Rat(13, 2), Inf}
TreeAhtDist        == {Absent, None, EmptyDict}
                      \cup {Dict([p90_p50_ratio |-> r]) :
                              r \in {None, NaN, Rat(6, 5), Rat(5, 2)}}
TreeEscalation     == {Absent, None, NaN, Num(5), Num(25)}
TreeSavings        == {Absent, None, EmptyDict}
                      \cup {Dict([annual_savings |-> a]) :
                              a \in {None, NaN, Num(5000), Num(150000)}}
\* a dimension of the tree: not there, null, or a dict of metric results
TreeDimKinds       == {"absent", "null", "dict"}

-----------------------------------------------------------------------------
(* State.  fn, arg, ret: one call of one of the scorer's functions.  The   *)
(* other variables are one run of BeyondMetricsPipeline: its fields and    *)
(* arguments, the position of run() in its loops, its locals, the writes   *)
(* the sink has received and the log of calls made to the collaborators.   *)
(* table, cost_config, instance, call_result: the table read from the     *)
(* DataSource, the cost configuration handed to the economy calculator,    *)
(* the dimension calculator run() holds at the moment, and the outcome of  *)
(* the last construction or metric call.                                   *)

VARIABLES fn, arg, ret,
          dimensions_config, post_run, write_results_json, run_dir, df,
          pc, dim_idx, metric_idx, cb_idx, dim_results, all_results,
          sink, events, outcome, previous,
          table, cost_config, instance, call_result

scorer_vars == <<fn, arg, ret>>

pipeline_vars == <<dimensions_config, post_run, write_results_json, run_dir, df,
                   pc, dim_idx, metric_idx, cb_idx, dim_results, all_results,
                   sink, events, outcome, previous>>

\* what is kept of the run before: nothing yet, or its outcome, its calls
\* and the writes the sink received from it
NoPrevious == [done |-> FALSE, outcome |-> None, events |-> <<>>, sink |-> <<>>]

dimension_vars == <<table, cost_config, instance, call_result>>

ScorerIdle == fn = "idle" /\ arg = <<>> /\ ret = None

\* no calculator is held; nothing has been called
NoInstance == [class |-> "", df |-> [columns |-> {}, rows |-> <<>>], config |-> None]
NoCall     == [call |-> "", outcome |-> None]

\* no table has been read and no calculator built
NoDimensions ==
    /\ table = [columns |-> {}, rows |-> <<>>]
    /\ cost_config = None
    /\ instance = NoInstance
    /\ call_result = NoCall

\* no pipeline has been built
NoPipeline ==
    /\ dimensions_config = [isdict |-> FALSE, entries |-> <<>>]
    /\ post_run = <<>>
    /\ write_results_json = FALSE
    /\ run_dir = <<>>
    /\ df = [readable |-> FALSE, lacks_columns_of |-> {}, kpi |-> None]
    /\ pc = "none"
    /\ dim_idx = 0 /\ metric_idx = 0 /\ cb_idx = 0
    /\ dim_results = EmptyDict /\ all_results = EmptyDict
    /\ sink = <<>> /\ events = <<>>
    /\ outcome = None
    /\ previous = NoPrevious

Call(f, a, r) ==
    fn' = f /\ arg' = a /\ ret' = r /\ UNCHANGED <<pipeline_vars, dimension_vars>>

CallScoreRepetitividad ==
    /\ fn = "idle"
    /\ \E v \in {None} \cup ListsOver(VolumeElems) :
        Call("score_repetitividad", <<v>>, Returned(score_repetitividad(v)))

CallScorePredictibilidad ==
    /\ fn = "idle"
    /\ \E r \in RatioArgs, e \in EscArgs :
        Call("score_predictibilidad", <<r, e>>, Returned(score_predictibilidad(r, e)))

CallScoreEstructuracion ==
    /\ fn = "idle"
    /\ \E c \in {None} \cup ListsOver(PctElems) :
        Call("score_estructuracion", <<c>>, Returned(score_estructuracion(c)))

CallScoreComplejidad ==
    /\ fn = "idle"
    /\ \E r \in RatioArgs, e \in EscArgs :
        Call("score_complejidad", <<r, e>>, Returned(score_complejidad(r, e)))

CallScoreEstabilidad ==
    /\ fn = "idle"
    /\ \E p \in PeakArgs :
        Call("score_estabilidad", <<p>>, Returned(score_estabilidad(p)))

CallScoreRoi ==
    /\ fn = "idle"
    /\ \E a \in SavingsArgs :
        Call("score_roi", <<a>>, Returned(score_roi(a)))

CallClassify ==
    /\ fn = "idle"
    /\ \E x \in ScoreArgs :
        Call("classify_agentic_score", <<x>>, Returned(classify_agentic_score(x)))

\* a dimension entry of a result tree
TreeDim(kind, pairs) ==
    CASE kind = "absent" -> Absent
      [] kind = "null"   -> None
      [] OTHER           -> MkDict(pairs)

\* compute_from_data on a result tree; only a dimension that is a dict
\* has keys
CallComputeFromData ==
    /\ fn = "idle"
    /\ \E kv \in TreeDimKinds, ko \in TreeDimKinds, ke \in TreeDimKinds,
          vbs \in TreeVolumeBySkill, cd \in TreeChannelDist, po \in TreePeak,
          ad \in TreeAhtDist, er \in TreeEscalation, ps \in TreeSavings :
        /\ kv # "dict" => vbs = Absent /\ cd = Absent /\ po = Absent
        /\ ko # "dict" => ad = Absent /\ er = Absent
        /\ ke # "dict" => ps = Absent
        /\ LET volumetry == TreeDim(kv, [volume_by_skill          |-> vbs,
                                         channel_distribution_pct |-> cd,
                                         peak_offpeak_ratio       |-> po])
               op        == TreeDim(ko, [aht_distribution |-> ad,
                                         escalation_rate  |-> er])
               econ      == TreeDim(ke, [potential_savings |-> ps])
               data      == MkDict([volumetry               |-> volumetry,
                                    operational_performance |-> op,
                                    economy_costs           |-> econ])
           IN Call("compute_from_data", <<data>>, compute_from_data(data))

InitScorer == ScorerIdle /\ NoPipeline /\ NoDimensions

NextScorer ==
    \/ CallScoreRepetitividad
    \/ CallScorePredictibilidad
    \/ CallScoreEstructuracion
    \/ CallScoreComplejidad
    \/ CallScoreEstabilidad
    \/ CallScoreRoi
    \/ CallClassify
    \/ CallComputeFromData

vars == <<fn, arg, ret,
          dimensions_config, post_run, write_results_json, run_dir, df,
          pc, dim_idx, metric_idx, cb_idx, dim_results, all_results,
          sink, events, outcome, previous,
          table, cost_config, instance, call_result>>

SpecScorer == InitScorer /\ [][NextScorer]_vars

-----------------------------------------------------------------------------
(* Properties of the scorer, checked under SpecScorer *)

ScoreFns == {"score_repetitividad", "score_predictibilidad", "score_estructuracion",
             "score_complejidad", "score_estabilidad", "score_roi"}

\* compute_from_data has returned a composite result
Composite == fn = "compute_from_data" /\ ret.t = "return"

\* the composite score record of the result
Readiness == ret.v.f["agentic_readiness"]

\* the sub-scores of a composite result that have computed = true
ComputedSet(r) == {x \in DOMAIN r.sub_scores : r.sub_scores[x].computed}

\* the base weights as the specification states them, in hundredths
StatedWeight100 ==
    [repetitividad |-> 25, predictibilidad |-> 20, estructuracion |-> 15,
     complejidad |-> 15, estabilidad |-> 10, roi |-> 15]

\* sum of the integers f[x], x in S
RECURSIVE IntSum(_, _)
IntSum(f, S) ==
    IF S = {} THEN 0
    ELSE LET x == CHOOSE y \in S : TRUE IN f[x] + IntSum(f, S \ {x})

\* sum of the floats f[x], x in S
RECURSIVE FloatSum(_, _)
FloatSum(f, S) ==
    IF S = {} THEN Num(0)
    ELSE LET x == CHOOSE y \in S : TRUE IN Add(f[x], FloatSum(f, S \ {x}))

\* C1: in every composite result the normalized weights are defined on
\* exactly the set S of computed sub-scores, each is its base weight divided
\* by the sum of the base weights over S, they sum to 1, the base weights are
\* 0.25/0.20/0.15/0.15/0.10/0.15 (summing to 1), and final_score is null
\* if and only if S is empty.
C1_NormalizedWeights ==
    Composite =>
        LET r   == Readiness
            S   == ComputedSet(r)
            nw  == r.weights.normalized_weights
            tot == IntSum(StatedWeight100, S)
        IN /\ IntSum(StatedWeight100, DOMAIN StatedWeight100) = 100
           /\ \A x \in DOMAIN StatedWeight100 :
                 r.weights.base_weights[x] = Rat(StatedWeight100[x], 100)
           /\ DOMAIN nw = S
           /\ \A x \in S : /\ nw[x].t = "num"
                           /\ nw[x].n * tot = StatedWeight100[x] * nw[x].d
           /\ S # {} => FloatSum(nw, S) = Num(1)
           /\ (r.final_score = None) <=> (S = {})

\* C1 witness: a composite result in which some sub-scores are computed and
\* some are not, so that the weights are renormalized over a proper subset
C1_Witness ==
    /\ Composite
    /\ Cardinality(ComputedSet(Readiness)) = 3
    /\ Readiness.weights.normalized_weights["estabilidad"] = Rat(10, 45)

\* the weighted mean of the computed sub-scores of r, as an exact fraction
WeightedMean(r) ==
    LET S == ComputedSet(r)
        products == [x \in S |-> Mul(r.sub_scores[x].score, Num(StatedWeight100[x]))]
    IN DivInt(FloatSum(products, S), IntSum(StatedWeight100, S))

\* f is x rounded to 2 decimals: a multiple of 1/100 at most 1/200 from x
IsRounded2(f, x) ==
    /\ f.t = "num"
    /\ 100 % f.d = 0
    /\ Le(Mul(Num(200), Sub(f, x)), Num(1))
    /\ Le(Mul(Num(200), Sub(x, f)), Num(1))

\* C2: whenever at least one sub-score is computed, final_score is the sum
\* over the computed sub-scores of score times renormalized weight, rounded
\* to 2 decimals; the sub-scores that are not computed add nothing.
C2_FinalScore ==
    (Composite /\ ComputedSet(Readiness) # {}) =>
        IsRounded2(Readiness.final_score, WeightedMean(Readiness))

\* C2 witness: a composite result over a proper subset of the sub-scores
\* whose weighted mean is not a multiple of 1/100, so that rounding acts
C2_Witness ==
    /\ Composite
    /\ ComputedSet(Readiness) \notin {{}, DOMAIN StatedWeight100}
    /\ Readiness.final_score # WeightedMean(Readiness)

\* a sub-score record: not computed with a null score, or computed with a
\* score in [0, 10]
SubScoreInRange(s) ==
    /\ ~s.computed => s.score = None
    /\ s.computed => /\ s.score.t = "num"
                     /\ 0 <= s.score.n
                     /\ s.score.n <= 10 * s.score.d

\* C3: every sub-score record returned by one of the six scoring functions,
\* called on its own or by compute_from_data, has a null score when it is
\* not computed and a score in [0, 10] when it is.
C3_SubScoreRange ==
    /\ (fn \in ScoreFns /\ ret.t = "return") => SubScoreInRange(ret.v)
    /\ Composite => \A x \in DOMAIN Readiness.sub_scores :
                        SubScoreInRange(Readiness.sub_scores[x])

\* C3 witness: score_complejidad on ratio 0 and escalation -5, where the
\* unclamped value is 16 and the score is 10
C3_Witness ==
    /\ fn = "score_complejidad"
    /\ arg = <<Num(0), Num(-5)>>
    /\ ret.v.computed
    /\ ret.v.score = Num(10)

\* the label of a score as the specification states it
StatedLabel(score) ==
    CASE score = None        -> "NO_DATA"
      [] Ge(score, Num(8))   -> "AUTOMATE"
      [] Ge(score, Num(5)) /\ Lt(score, Num(8)) -> "ASSIST"
      [] Ge(score, Num(3)) /\ Lt(score, Num(5)) -> "AUGMENT"
      [] Lt(score, Num(3))   -> "HUMAN_ONLY"

\* C4: classify_agentic_score gives AUTOMATE for score >= 8, ASSIST for
\* 5 <= score < 8, AUGMENT for 3 <= score < 5, HUMAN_ONLY for score < 3 and
\* NO_DATA for a null score; in a composite result the label is the label
\* of final_score, and it is NO_DATA if and only if final_score is null.
C4_Classification ==
    /\ fn = "classify_agentic_score" => ret.v = StatedLabel(arg[1])
    /\ Composite =>
          /\ Readiness.classification = StatedLabel(Readiness.final_score)
          /\ (Readiness.classification = "NO_DATA") <=> (Readiness.final_score = None)

\* C4 witness: the boundary score 8.00 classified AUTOMATE
C4_Witness ==
    /\ fn = "classify_agentic_score"
    /\ arg = <<Num(8)>>
    /\ ret.v = "AUTOMATE"

\* an indicator is present when it is neither absent/null nor NaN
Present(x) == x.t \notin {"none", "nan"}

\* the score the specification's predictability table gives to a known
\* ratio and a known escalation %
StatedPredictibilidad(ratio, esc) ==
    LET good   == Lt(ratio, Rat(15, 10)) /\ Lt(esc, Num(10))
        medium == \/ Ge(ratio, Rat(15, 10)) /\ Le(ratio, Num(2))
                  \/ Ge(esc, Num(10)) /\ Le(esc, Num(20))
        bad    == Gt(ratio, Num(2)) /\ Gt(esc, Num(20))
    IN IF good THEN 10 ELSE IF medium THEN 5 ELSE IF bad THEN 0 ELSE 3

\* C5: score_predictibilidad follows the rule table in priority order when
\* ratio and escalation % are both present (both good 10, else a medium band
\* 5, else both bad 0, else 3); with exactly one present it gives 3 with
\* computed=true; with neither it gives computed=false.  Ratio 1.2 with
\* escalation 5% gives 10.
C5_Predictibilidad ==
    fn = "score_predictibilidad" =>
        LET ratio == arg[1]
            esc   == arg[2]
            s     == ret.v
        IN /\ ret.t = "return"
           /\ (Present(ratio) /\ Present(esc)) =>
                 s.computed /\ s.score = Num(StatedPredictibilidad(ratio, esc))
           /\ (Present(ratio) # Present(esc)) =>
                 s.computed /\ s.score = Num(3)
           /\ (~Present(ratio) /\ ~Present(esc)) =>
                 ~s.computed /\ s.score = None
           /\ (ratio = Rat(12, 10) /\ esc = Num(5)) =>
                 s.computed /\ s.score = Num(10)

\* C5 witness: the ratio on the lower edge of its medium band with a good
\* escalation %, scored 5
C5_Witness ==
    /\ fn = "score_predictibilidad"
    /\ arg = <<Rat(15, 10), Num(5)>>
    /\ ret.v.computed
    /\ ret.v.score = Num(5)

\* clamp(x, 0, 10) as the specification states it
StatedClamp(x) == IF Lt(x, Num(0)) THEN Num(0) ELSE IF Gt(x, Num(10)) THEN Num(10) ELSE x

\* the inverse-complexity score of the specification
StatedComplejidad(ratio, esc) ==
    LET base == IF Present(ratio)
                THEN StatedClamp(Mul(Sub(Num(3), ratio), Num(5)))
                ELSE Num(5)
        deduction == IF Present(esc) THEN Mul(esc, Rat(1, 5)) ELSE Num(0)
    IN StatedClamp(Sub(base, deduction))

\* C6: score_complejidad returns clamp(base - esc/5, 0, 10) with
\* base = clamp((3 - ratio)/2 * 10, 0, 10) for a known ratio and 5 otherwise,
\* the deduction being 0 for an unknown escalation rate; computed=false only
\* when both are absent, null or NaN.
C6_Complejidad ==
    fn = "score_complejidad" =>
        LET ratio == arg[1]
            esc   == arg[2]
            s     == ret.v
        IN /\ ret.t = "return"
           /\ s.computed <=> (Present(ratio) \/ Present(esc))
           /\ s.computed => s.score = StatedComplejidad(ratio, esc)

\* C6 witness: no ratio and escalation 5%, scored 5 - 1 = 4
C6_Witness ==
    /\ fn = "score_complejidad"
    /\ arg = <<None, Num(5)>>
    /\ ret.v.computed
    /\ ret.v.score = Num(4)

NumericPositions(items) == {i \in 1..Len(items) : Present(items[i])}

\* the mean of the numeric entries of a list that has some
StatedMean(items) ==
    LET I == NumericPositions(items)
    IN Mul(FloatSum(items, I), Rat(1, Cardinality(I)))

\* C8: score_repetitividad maps the mean of the per-skill volumes, null and
\* NaN entries ignored: mean > 80 gives 10, 40 <= mean <= 80 gives 5,
\* mean < 40 gives 0 (45 gives 5; 40 and 80 give 5); an empty list or one
\* with no numeric entry gives computed=false.
C8_Repetitividad ==
    fn = "score_repetitividad" =>
        LET v == arg[1]
            s == ret.v
            numeric == IsList(v) /\ NumericPositions(v.items) # {}
        IN /\ ret.t = "return"
           /\ s.computed <=> numeric
           /\ numeric =>
                LET mean == StatedMean(v.items)
                IN /\ Gt(mean, Num(80)) => s.score = Num(10)
                   /\ (Ge(mean, Num(40)) /\ Le(mean, Num(80))) => s.score = Num(5)
                   /\ Lt(mean, Num(40)) => s.score = Num(0)
                   /\ mean \in {Num(40), Num(45), Num(80)} => s.score = Num(5)

\* C8 witness: the volumes 40 and 50, of mean 45, scored 5
C8_Witness ==
    /\ fn = "score_repetitividad"
    /\ arg = <<List(<<Num(40), Num(50)>>)>>
    /\ ret.v.computed
    /\ ret.v.score = Num(5)

\* the value a result tree holds at dimension dim, key key; Absent when
\* the dimension or the key is not there
RawIndicator(data, dim, key) ==
    IF ~HasKey(data, dim) THEN Absent
    ELSE IF ~HasKey(data.f[dim], key) THEN Absent
    ELSE data.f[dim].f[key]

\* the value at dimension dim, key key, sub-key sub; Absent when any of
\* the three is not there or the value at key is null
RawNested(data, dim, key, sub) ==
    LET outer == RawIndicator(data, dim, key)
    IN IF outer \in {Absent, None} THEN Absent
       ELSE IF ~HasKey(outer, sub) THEN Absent
       ELSE outer.f[sub]

\* a missing scalar indicator: key absent, null or NaN
MissingScalar(x) == x \in {Absent, None, NaN}

\* a missing sequence indicator: key absent, null, NaN, or a list without
\* a single number in it
MissingSequence(x) ==
    \/ x \in {Absent, None, NaN}
    \/ IsList(x) /\ \A i \in 1..Len(x.items) : x.items[i] \in {None, NaN}

\* for each sub-score, whether all its raw indicators are missing
AllMissing(data) ==
    LET ratio == MissingScalar(
                     RawNested(data, "operational_performance",
                               "aht_distribution", "p90_p50_ratio"))
        esc   == MissingScalar(
                     RawIndicator(data, "operational_performance", "escalation_rate"))
    IN [repetitividad   |-> MissingSequence(
                                RawIndicator(data, "volumetry", "volume_by_skill")),
        predictibilidad |-> ratio /\ esc,
        estructuracion  |-> MissingSequence(
                                RawIndicator(data, "volumetry", "channel_distribution_pct")),
        complejidad     |-> ratio /\ esc,
        estabilidad     |-> MissingScalar(
                                RawIndicator(data, "volumetry", "peak_offpeak_ratio")),
        roi             |-> MissingScalar(
                                RawNested(data, "economy_costs",
                                          "potential_savings", "annual_savings"))]

\* the reason codes of the "not computed" returns
NotComputedReasons ==
    {"sin_datos_volumen", "volumen_no_numerico", "sin_datos", "sin_datos_canal",
     "canales_no_numericos", "sin_datos_peak_offpeak", "sin_datos_ahorro"}

\* every dimension entry of the tree is a dict of metric results
DimensionsAreDicts(data) == \A k \in DOMAIN data.f : IsDict(data.f[k])

-----------------------------------------------------------------------------
(* BeyondMetricsPipeline.  A configuration is the `dimensions` block: a    *)
(* dict from dimension name to entry, kept here as the sequence of its     *)
(* entries in iteration order, or something that is not a dict.  A path is *)
(* the sequence of the pieces that the code concatenates.                  *)

Str(x) == [t |-> "str", s |-> x]

\* d[k] = v
DictSet(dd, k, v) ==
    Dict([x \in DOMAIN dd.f \cup {k} |-> IF x = k THEN v ELSE dd.f[x]])

\* mutant of RStrip: the trailing separator kept
RStripNothing(path) == path

\* run_dir.rstrip("/")
RECURSIVE RStrip(_)
RStrip(path) ==
    IF path # <<>> /\ path[Len(path)] = "/"
    THEN RStrip(SubSeq(path, 1, Len(path) - 1))
    ELSE path

\* f"{run_base}/{dim_name}_{metric_name}.png"
ImgPath(run_base, dim_name, metric_name) ==
    run_base \o <<"/", dim_name, "_", metric_name, ".png">>

\* mutant of ResultsJsonPath: a name of its own for each run
ResultsJsonPathPerRun(run_base) ==
    run_base \o <<"/", IF previous.done THEN "results_2.json" ELSE "results.json">>

\* f"{run_base}/results.json"
ResultsJsonPath(run_base) == run_base \o <<"/", "results.json">>

\* one call made by run(), in the order the calls are made
Event(op, dim_name, what) == [op |-> op, dim |-> dim_name, what |-> what]

\* json.dump(data, ensure_ascii=False, indent=2), the document as a tree
\* of JSON values: None is written null, a finite float a number, and,
\* allow_nan being left at its default, NaN and the infinities are written
\* as the tokens NaN, Infinity and -Infinity
RECURSIVE json_dump(_)

\* the composite score record as a JSON object
score_record_json(r) ==
    LET number_object(w) == [t |-> "json_object", f |-> [x \in DOMAIN w |-> json_dump(w[x])]]
        sub_score(x) ==
            [t |-> "json_object",
             f |-> [score    |-> json_dump(x.score),
                    computed |-> [t |-> IF x.computed THEN "json_true" ELSE "json_false"],
                    reason   |-> [t |-> "json_string", s |-> x.reason]]]
    IN [t |-> "json_object",
        f |-> [final_score    |-> json_dump(r.final_score),
               classification |-> [t |-> "json_string", s |-> r.classification],
               weights        |-> [t |-> "json_object",
                                   f |-> [base_weights |-> number_object(r.weights.base_weights),
                                          normalized_weights |->
                                              number_object(r.weights.normalized_weights)]],
               sub_scores     |-> [t |-> "json_object",
                                   f |-> [x \in DOMAIN r.sub_scores |-> sub_score(r.sub_scores[x])]]]]

json_dump(obj) ==
    IF "t" \notin DOMAIN obj THEN score_record_json(obj) ELSE
    CASE obj.t = "none" -> [t |-> "json_null"]
      [] obj.t = "num"  -> [t |-> "json_number", n |-> obj.n, d |-> obj.d]
      [] obj.t = "nan"  -> [t |-> "json_token", s |-> "NaN"]
      [] obj.t = "inf"  -> [t |-> "json_token", s |-> "Infinity"]
      [] obj.t = "ninf" -> [t |-> "json_token", s |-> "-Infinity"]
      [] obj.t = "str"  -> [t |-> "json_string", s |-> obj.s]
      [] obj.t = "list" ->
            [t |-> "json_array", items |-> [i \in DOMAIN obj.items |-> json_dump(obj.items[i])]]
      [] obj.t = "dict" ->
            [t |-> "json_object", f |-> [k \in DOMAIN obj.f |-> json_dump(obj.f[k])]]

\* one write received by the sink
Write(op, path, data) == [op |-> op, path |-> path, data |-> data]

\* mutant of Methods: any name answers
MethodsAnyName == {"kpi", "plot_kpi", "no_such_metric"}

\* the public methods a dimension calculator answers to, by kind: one that
\* returns a value and one that returns a plot
Methods == {"kpi", "plot_kpi"}

\* the methods of the calculator of a class
MethodsOf(class) ==
    IF class = "beyond_metrics.dimensions.VolumetriaMetrics"
    THEN Methods \cup {"volume_by_skill"}
    ELSE Methods

\* metric_name.startswith("plot_")
IsPlot(metric_name) == metric_name \in {"plot_kpi"}

\* _serialize_for_json: None, strings and floats (numpy floats become
\* floats of the same value) are returned as they are, NaN and the
\* infinities included; a Series becomes the list of its values; lists
\* and dicts are mapped
RECURSIVE _serialize_for_json(_)
_serialize_for_json(obj) ==
    CASE obj.t \in {"none", "num", "nan", "inf", "ninf", "str"} -> obj
      [] obj.t = "series" -> List(obj.values)
      [] obj.t = "list" ->
            List([i \in DOMAIN obj.items |-> _serialize_for_json(obj.items[i])])
      [] obj.t = "dict" ->
            Dict([k \in DOMAIN obj.f |-> _serialize_for_json(obj.f[k])])

\* the metrics of VolumetriaMetrics that return a Series indexed by
\* category; volume_by_skill stands for the four of them
CategoricalMetrics == {"volume_by_skill"}

\* a pandas Series: the categories of its index and its values
Series(index, values) == [t |-> "series", index |-> index, values |-> values]

\* what the method of a non-plot metric returns over the table
MethodValue(dim_name, metric_name) ==
    IF metric_name \in CategoricalMetrics
    THEN Series(<<"sales", "support">>, <<Num(30), Num(12)>>)
    ELSE df.kpi

\* the value a non-plot metric gets in the tree: {labels, values} for a
\* categorical Series of the dimension configured as "volumetry", the
\* serialised value otherwise
MetricValue(dim_name, metric_name) ==
    LET value == MethodValue(dim_name, metric_name)
    IN  IF /\ dim_name = "volumetry"
           /\ value.t = "series"
           /\ metric_name \in CategoricalMetrics
        THEN Dict([labels |-> List([i \in DOMAIN value.index |-> Str(value.index[i])]),
                   values |-> List(value.values)])
        ELSE _serialize_for_json(value)

\* _execute_metric on an existing method: the result stored in the tree
MetricResult(run_base, dim_name, metric_name) ==
    IF IsPlot(metric_name)
    THEN Dict([type |-> Str("image"),
               path |-> Str(ImgPath(run_base, dim_name, metric_name))])
    ELSE MetricValue(dim_name, metric_name)

\* mutant of CurrentMetric: the list walked from its end
CurrentMetricReversed ==
    dimensions_config.entries[dim_idx].metrics[
        Len(dimensions_config.entries[dim_idx].metrics) + 1 - metric_idx]

\* the entry run() is at, and the metric of it
CurrentEntry  == dimensions_config.entries[dim_idx]
CurrentMetric == CurrentEntry.metrics[metric_idx]

Raise(exc) == pc' = "raised" /\ outcome' = Raised(exc)

\* mutant of Enabled: the flag is not read
EnabledAlways(entry) == TRUE

\* dim_cfg.get("enabled", True)
Enabled(entry) == entry.enabled

(* Inputs of a run *)

MaxDims == 2

DimensionNames == <<"volumetry", "operational_performance", "economy_costs",
                    "satisfaction_experience">>
ClassPaths     == <<"beyond_metrics.dimensions.VolumetriaMetrics",
                    "beyond_metrics.dimensions.OperationalPerformanceMetrics",
                    "beyond_metrics.dimensions.EconomyCostMetrics",
                    "beyond_metrics.dimensions.SatisfactionExperienceMetrics">>

MetricLists == {<<>>, <<"kpi">>, <<"plot_kpi">>, <<"no_such_metric">>,
                <<"kpi", "plot_kpi">>, <<"plot_kpi", "kpi">>,
                <<"plot_kpi", "no_such_metric">>}

\* the keys the i-th dimension may be configured under: its usual name,
\* and for the volume dimension another one as well
KeysOf(i) == IF i = 1 THEN {DimensionNames[i], "volume"} ELSE {DimensionNames[i]}

\* the operational dimension may also be configured under the key the
\* scorer's callback writes to
ScorerKeysOf(i) == IF i = 2 THEN {"agentic_readiness"} ELSE {}

\* the metric lists of the i-th dimension; the volume dimension may list
\* its categorical metric
MetricListsOf(i) ==
    IF i = 1
    THEN MetricLists \cup {<<"volume_by_skill">>, <<"kpi", "volume_by_skill">>}
    ELSE MetricLists

\* the entry of the i-th dimension: not a dict, or a dict with `enabled`
\* (absent means true), `class` ("" when absent) and `metrics`.  The fields
\* run() does not get to read are left at their defaults.
NotADict(i) == [name |-> DimensionNames[i], isdict |-> FALSE, enabled |-> TRUE,
                class |-> "", metrics |-> <<>>]

Entries(i) ==
    {NotADict(i)}
    \cup {[name |-> DimensionNames[i], isdict |-> TRUE, enabled |-> FALSE,
           class |-> c, metrics |-> <<>>] : c \in {"", ClassPaths[i]}}
    \cup {[name |-> DimensionNames[i], isdict |-> TRUE, enabled |-> TRUE,
           class |-> "", metrics |-> <<>>]}
    \cup {[name |-> k, isdict |-> TRUE, enabled |-> TRUE,
           class |-> ClassPaths[i], metrics |-> m] :
             k \in KeysOf(i), m \in MetricListsOf(i)}
    \cup {[name |-> k, isdict |-> TRUE, enabled |-> TRUE,
           class |-> ClassPaths[i], metrics |-> <<"kpi">>] : k \in ScorerKeysOf(i)}

Configs ==
    {[isdict |-> FALSE, entries |-> <<>>]}
    \cup {[isdict |-> TRUE, entries |-> es] :
            es \in UNION {{f \in [1..n -> UNION {Entries(i) : i \in 1..n}] :
                             \A i \in 1..n : f[i] \in Entries(i)} : n \in 0..MaxDims}}

\* post-run callbacks: the scorer's, the one the analysis service defines
\* around the scorer, and one that writes to the tree and then raises
CallbackLists == {<<>>, <<"agentic_post_run">>, <<"raising_callback">>,
                  <<"raising_callback", "agentic_post_run">>,
                  <<"service_agentic_post_run">>}

\* the table the datasource holds: unreadable, or readable and possibly
\* without the columns some calculator requires; `kpi` is what the value
\* metrics compute over it, which is NaN or infinite for some tables
Tables == {[readable |-> FALSE, lacks_columns_of |-> {}, kpi |-> None]}
          \cup {[readable |-> TRUE, lacks_columns_of |-> l, kpi |-> Num(1)] :
                  l \in {{ClassPaths[1]}, {ClassPaths[2]}}}
          \cup {[readable |-> TRUE, lacks_columns_of |-> {}, kpi |-> v] :
                  v \in {Num(1), NaN, Inf}}

RunDirs == {<<"runs", "/", "r1">>, <<"runs", "/", "r1", "/">>}

InitPipeline ==
    /\ ScorerIdle
    /\ NoDimensions
    /\ dimensions_config \in Configs
    /\ post_run \in CallbackLists
    /\ write_results_json \in BOOLEAN
    /\ run_dir \in RunDirs
    /\ df \in Tables
    /\ pc = "start"
    /\ dim_idx = 0 /\ metric_idx = 0 /\ cb_idx = 0
    /\ dim_results = EmptyDict /\ all_results = EmptyDict
    /\ sink = <<>> /\ events = <<>>
    /\ outcome = None
    /\ previous = NoPrevious

inputs == <<dimensions_config, post_run, write_results_json, run_dir, df>>

\* what no step of run() touches
kept == <<scorer_vars, dimension_vars, inputs, previous>>

(* run(), one action per step *)

\* mutant of FreshResults: the tree of the run before is taken up again
CarriedResults == all_results

\* all_results = {}
FreshResults == EmptyDict

\* read the table, take the output base, check that the block is a dict,
\* start an empty tree
ReadCsv ==
    /\ pc = "start"
    /\ IF ~df.readable
       THEN /\ Raise("read_csv failed")
            /\ UNCHANGED <<events, dim_idx>>
       ELSE /\ events' = Append(events, Event("read_csv", "", ""))
            /\ IF ~dimensions_config.isdict
               THEN Raise("ValueError: dimensions must be a dict") /\ UNCHANGED dim_idx
               ELSE pc' = "dimension" /\ dim_idx' = 1 /\ UNCHANGED outcome
    /\ all_results' = IF df.readable /\ dimensions_config.isdict
                      THEN FreshResults
                      ELSE all_results
    /\ UNCHANGED <<kept, metric_idx, cb_idx, dim_results, sink>>

\* the loop reaches an entry that is not a dict, or an enabled one
\* without `class`
RejectDimension ==
    /\ pc = "dimension" /\ dim_idx <= Len(dimensions_config.entries)
    /\ \/ /\ ~CurrentEntry.isdict
          /\ Raise("ValueError: dimension config must be a dict")
       \/ /\ CurrentEntry.isdict /\ Enabled(CurrentEntry) /\ CurrentEntry.class = ""
          /\ Raise("ValueError: class is missing")
    /\ UNCHANGED <<kept, dim_idx, metric_idx, cb_idx, dim_results,
                   all_results, sink, events>>

\* the loop reaches a disabled entry, or one with no metrics
SkipDimension ==
    /\ pc = "dimension" /\ dim_idx <= Len(dimensions_config.entries)
    /\ CurrentEntry.isdict
    /\ \/ ~Enabled(CurrentEntry)
       \/ Enabled(CurrentEntry) /\ CurrentEntry.class # "" /\ CurrentEntry.metrics = <<>>
    /\ dim_idx' = dim_idx + 1
    /\ UNCHANGED <<kept, pc, metric_idx, cb_idx, dim_results,
                   all_results, sink, events, outcome>>

\* the class is imported and the calculator built over the table; the
\* constructor raises when the table lacks a column it requires
ConstructDimension ==
    /\ pc = "dimension" /\ dim_idx <= Len(dimensions_config.entries)
    /\ CurrentEntry.isdict /\ Enabled(CurrentEntry)
    /\ CurrentEntry.class # "" /\ CurrentEntry.metrics # <<>>
    /\ IF CurrentEntry.class \in df.lacks_columns_of
       THEN /\ Raise("ValueError: missing required columns")
            /\ UNCHANGED <<metric_idx, dim_results, events>>
       ELSE /\ events' = Append(events, Event("construct", CurrentEntry.name, ""))
            /\ dim_results' = EmptyDict
            /\ metric_idx' = 1
            /\ pc' = "metric"
            /\ UNCHANGED outcome
    /\ UNCHANGED <<kept, dim_idx, cb_idx, all_results, sink>>

\* _execute_metric for the next metric of the dimension; after the last
\* one the dimension's results enter the tree
ExecuteMetric ==
    /\ pc = "metric"
    /\ LET dim_name    == CurrentEntry.name
           metric_name == CurrentMetric
           run_base    == RStrip(run_dir)
           result      == MetricResult(run_base, dim_name, metric_name)
           img_path    == ImgPath(run_base, dim_name, metric_name)
           executed    == Append(events, Event("metric", dim_name, metric_name))
       IN IF metric_name \notin MethodsOf(CurrentEntry.class)
          THEN /\ Raise("ValueError: metric does not exist")
               /\ UNCHANGED <<dim_idx, metric_idx, dim_results, all_results, sink, events>>
          ELSE /\ events' = IF IsPlot(metric_name)
                            THEN Append(executed, Event("write_figure", dim_name, metric_name))
                            ELSE executed
               /\ sink' = IF IsPlot(metric_name)
                          THEN Append(sink, Write("write_figure", img_path, Str("figure")))
                          ELSE sink
               /\ dim_results' = DictSet(dim_results, metric_name, result)
               /\ IF metric_idx < Len(CurrentEntry.metrics)
                  THEN /\ metric_idx' = metric_idx + 1
                       /\ UNCHANGED <<pc, dim_idx, all_results>>
                  ELSE /\ all_results' = DictSet(all_results, dim_name, dim_results')
                       /\ dim_idx' = dim_idx + 1
                       /\ pc' = "dimension"
                       /\ UNCHANGED metric_idx
               /\ UNCHANGED outcome
    /\ UNCHANGED <<kept, cb_idx>>

\* the loop is over: results.json is written if asked for
WriteResultsJson ==
    /\ pc = "dimension" /\ dim_idx > Len(dimensions_config.entries)
    /\ IF write_results_json
       THEN /\ sink' = Append(sink, Write("write_json",
                                          ResultsJsonPath(RStrip(run_dir)),
                                          json_dump(all_results)))
            /\ events' = Append(events, Event("write_json", "", "results.json"))
       ELSE UNCHANGED <<sink, events>>
    /\ pc' = "post_run"
    /\ cb_idx' = 1
    /\ UNCHANGED <<kept, dim_idx, metric_idx, dim_results,
                   all_results, outcome>>

\* scorer_runner.agentic_post_run on the tree
agentic_post_run(results) ==
    LET agentic == compute_from_data(results)
    IN  IF agentic.t = "return"
        THEN DictSet(results, "agentic_readiness", agentic.v)
        ELSE results

\* run_analysis_collect_json.agentic_post_run on the tree: an exception of
\* the scorer is written to the tree as {"error": ...}
service_agentic_post_run(results) ==
    LET agentic == compute_from_data(results)
    IN  DictSet(results, "agentic_readiness",
                IF agentic.t = "return" THEN agentic.v
                ELSE Dict([error |-> Str(agentic.v)]))

\* mutant of AfterCallback: what a callback wrote before raising is undone
AfterCallbackRolledBack(cb, results) ==
    CASE cb = "agentic_post_run" -> agentic_post_run(results)
      [] cb = "service_agentic_post_run" -> service_agentic_post_run(results)
      [] cb = "raising_callback" -> results

\* the tree after callback cb, whose exception, if any, run() swallows
AfterCallback(cb, results) ==
    CASE cb = "agentic_post_run" -> agentic_post_run(results)
      [] cb = "service_agentic_post_run" -> service_agentic_post_run(results)
      [] cb = "raising_callback" -> DictSet(results, "scratch", Str("partial"))

\* the next post-run callback
RunCallback ==
    /\ pc = "post_run" /\ cb_idx <= Len(post_run)
    /\ events' = Append(events, Event("callback", "", post_run[cb_idx]))
    /\ all_results' = AfterCallback(post_run[cb_idx], all_results)
    /\ cb_idx' = cb_idx + 1
    /\ UNCHANGED <<kept, pc, dim_idx, metric_idx, dim_results,
                   sink, outcome>>

\* run() returns the tree
Return ==
    /\ pc = "post_run" /\ cb_idx > Len(post_run)
    /\ pc' = "done"
    /\ outcome' = Returned(all_results)
    /\ UNCHANGED <<kept, dim_idx, metric_idx, cb_idx, dim_results,
                   all_results, sink, events>>

\* run() is called again on the same pipeline, with the same arguments,
\* after it returned: what the first call left is set aside for comparison
\* and the sink's and the collaborators' logs start anew
Rerun ==
    /\ pc = "done" /\ ~previous.done
    /\ previous' = [done |-> TRUE, outcome |-> outcome, events |-> events, sink |-> sink]
    /\ pc' = "start"
    /\ outcome' = None
    /\ events' = <<>>
    /\ sink' = <<>>
    /\ UNCHANGED <<scorer_vars, dimension_vars, inputs, dim_idx, metric_idx,
                   cb_idx, dim_results, all_results>>

NextPipeline ==
    \/ Rerun
    \/ ReadCsv
    \/ RejectDimension
    \/ SkipDimension
    \/ ConstructDimension
    \/ ExecuteMetric
    \/ WriteResultsJson
    \/ RunCallback
    \/ Return

SpecPipeline == InitPipeline /\ [][NextPipeline]_vars

-----------------------------------------------------------------------------
(* Properties of the pipeline, checked under SpecPipeline *)

\* the errors run() raises for a malformed configuration: the block is
\* not a dict, an entry is not a dict, an entry has no `class`
ConfigurationErrors == {"ValueError: dimensions must be a dict",
                        "ValueError: dimension config must be a dict",
                        "ValueError: class is missing"}

MetricsExecuted == {i \in 1..Len(events) : events[i].op = "metric"}

\* C10: when run() raises the configuration error (block not a dict, an
\* entry not a dict, an entry without `class`, at any position), no metric
\* of any dimension has executed and nothing has been written through the
\* sink.
C10_ConfigErrorBeforeAnyMetric ==
    (pc = "raised" /\ outcome.v \in ConfigurationErrors) =>
        /\ MetricsExecuted = {}
        /\ sink = <<>>

\* the positions of the log that hold a call of kind op
EventsOf(op) == {i \in 1..Len(events) : events[i].op = op}

\* the entry configured under a dimension name
EntryOf(dim_name) ==
    CHOOSE e \in {dimensions_config.entries[i] : i \in 1..Len(dimensions_config.entries)} :
        e.name = dim_name

\* a calculator was constructed for a dimension that lists a metric its
\* class does not have
MissingMetricConfigured ==
    \E i \in EventsOf("construct") :
        \E k \in 1..Len(EntryOf(events[i].dim).metrics) :
            EntryOf(events[i].dim).metrics[k] = "no_such_metric"

\* C11: once a calculator has been constructed for a dimension that lists
\* a metric the calculator does not have, the run never returns a tree,
\* never writes results.json and never invokes a callback, the missing
\* metric gets no value in any tree, and when the run has raised for the
\* missing metric the same holds.
C11_MissingMetricIsFatal ==
    /\ MissingMetricConfigured =>
          /\ pc # "done" /\ outcome.t # "return"
          /\ EventsOf("write_json") = {} /\ EventsOf("callback") = {}
          /\ ~HasKey(dim_results, "no_such_metric")
          /\ \A d \in DOMAIN all_results.f : ~HasKey(all_results.f[d], "no_such_metric")
    /\ (pc = "raised" /\ outcome.v = "ValueError: metric does not exist") =>
          /\ MissingMetricConfigured
          /\ \A i \in 1..Len(sink) : sink[i].op # "write_json"

\* C11 witness: the run raised for a missing metric in the second
\* dimension, with results.json asked for and callbacks attached
C11_Witness ==
    /\ pc = "raised"
    /\ outcome = Raised("ValueError: metric does not exist")
    /\ dim_idx = 2
    /\ metric_idx = 2
    /\ write_results_json
    /\ post_run # <<>>
    /\ DOMAIN all_results.f = {"volumetry"}

\* the positions of the entries run() is to skip: the disabled ones and
\* the ones without metrics; `classed` tells whether an enabled entry must
\* also carry its `class` to count
SkippedEntries(classed) ==
    {i \in 1..Len(dimensions_config.entries) :
        LET e == dimensions_config.entries[i]
        IN /\ e.isdict
           /\ \/ ~e.enabled
              \/ e.metrics = <<>> /\ (classed => e.class # "")}

\* the entries at the positions S are skipped entirely and without error
SkippedEntirely(S) ==
    \A i \in S :
        LET name == dimensions_config.entries[i].name
        IN /\ \A k \in 1..Len(events) :
                 events[k].op \in {"construct", "metric", "write_figure"}
                    => events[k].dim # name
           /\ ~HasKey(all_results, name)
           /\ ~(pc = "metric" /\ dim_idx = i)
           /\ ~(pc = "raised" /\ dim_idx = i)
           /\ pc = "done" => dim_idx > i

\* C12 as stated: every entry that is disabled or has no metrics is skipped
\* entirely and without error, and the run goes on to the next entry.
C12_SkipsAsStated == SkippedEntirely(SkippedEntries(FALSE))

\* C12: every entry that is disabled, or that has its `class` and no
\* metrics, is skipped entirely and without error: no calculator is
\* constructed for it, none of its metrics executes, the tree gets no key
\* for it, the run never raises at it and a run that returns has gone past
\* it.
C12_SkipsDimension == SkippedEntirely(SkippedEntries(TRUE))

\* C12 witness: a run that skipped a disabled first entry without `class`,
\* executed the second dimension and returned
C12_Witness ==
    /\ pc = "done"
    /\ Len(dimensions_config.entries) = 2
    /\ ~dimensions_config.entries[1].enabled
    /\ dimensions_config.entries[1].class = ""
    /\ DOMAIN outcome.v.f = {"operational_performance"}

\* the calls one dimension entry is due: its construction, then its
\* metrics in list order, each plot followed by the write of its figure;
\* nothing for an entry that is disabled or has no metrics
RECURSIVE MetricCalls(_, _)
MetricCalls(e, k) ==
    IF k > Len(e.metrics) THEN <<>>
    ELSE <<[op |-> "metric", dim |-> e.name, what |-> e.metrics[k]]>>
         \o (IF e.metrics[k] = "plot_kpi"
             THEN <<[op |-> "write_figure", dim |-> e.name, what |-> e.metrics[k]]>>
             ELSE <<>>)
         \o MetricCalls(e, k + 1)

DimensionCalls(e) ==
    IF e.isdict /\ e.enabled /\ e.metrics # <<>>
    THEN <<[op |-> "construct", dim |-> e.name, what |-> ""]>> \o MetricCalls(e, 1)
    ELSE <<>>

\* the calls of the dimensions from position i on, in configuration order
RECURSIVE DimensionsCalls(_)
DimensionsCalls(i) ==
    IF i > Len(dimensions_config.entries) THEN <<>>
    ELSE DimensionCalls(dimensions_config.entries[i]) \o DimensionsCalls(i + 1)

\* the callbacks, in list order
CallbackCalls == [i \in 1..Len(post_run) |-> [op |-> "callback", dim |-> "", what |-> post_run[i]]]

\* the order of one whole run: the read, the dimensions, the optional
\* results.json, the callbacks
StatedOrder ==
    <<[op |-> "read_csv", dim |-> "", what |-> ""]>>
    \o DimensionsCalls(1)
    \o (IF write_results_json
        THEN <<[op |-> "write_json", dim |-> "", what |-> "results.json"]>>
        ELSE <<>>)
    \o CallbackCalls

IsPrefix(s, t) == Len(s) <= Len(t) /\ s = SubSeq(t, 1, Len(s))

\* C13: at every point of a run the calls made so far are an initial part
\* of: the single table read; the enabled dimensions in configuration
\* order, each constructed and then executing its metrics in list order
\* before the next is constructed; the optional write of results.json; the
\* callbacks in list order.  A run that returns has made all of them, and
\* the write of results.json and the callbacks come only after every
\* dimension's calls.
C13_EventOrder ==
    /\ IsPrefix(events, StatedOrder)
    /\ pc = "done" => events = StatedOrder
    /\ (EventsOf("write_json") # {} \/ EventsOf("callback") # {}) =>
          IsPrefix(<<[op |-> "read_csv", dim |-> "", what |-> ""]>> \o DimensionsCalls(1),
                   events)

\* C13 witness: a run that returned after two dimensions of two metrics
\* each, the write of results.json and two callbacks
C13_Witness ==
    /\ pc = "done"
    /\ write_results_json
    /\ Len(post_run) = 2
    /\ Cardinality(EventsOf("construct")) = 2
    /\ Cardinality(EventsOf("metric")) = 4
    /\ Cardinality(EventsOf("write_json")) = 1

Range(seq) == {seq[i] : i \in 1..Len(seq)}

\* the entries whose metrics a run executes
ExecutedEntries ==
    {e \in Range(dimensions_config.entries) :
        e.isdict /\ e.enabled /\ e.class # "" /\ e.metrics # <<>>}

\* the results of one executed dimension
DimensionResults(e) ==
    Dict([m \in Range(e.metrics) |-> MetricResult(RStrip(run_dir), e.name, m)])

\* the callbacks that compute the composite score
ScorerCallbacks == {"agentic_post_run", "service_agentic_post_run"}

\* the entry is configured under the key a scorer callback of the run
\* writes its score to
UnderScorerKey(e) ==
    e.name = "agentic_readiness" /\ Range(post_run) \cap ScorerCallbacks # {}

\* C14: a callback that raises never makes run() raise: a run that raised
\* had invoked no callback; a run that returns has invoked every callback
\* of the list, and the tree it returns holds every executed dimension's
\* results (a dimension under the key a scorer callback writes to aside)
\* and the entry the raising callback wrote before it raised.
C14_CallbackFailureIsolated ==
    /\ pc = "raised" => EventsOf("callback") = {}
    /\ pc = "done" =>
          /\ outcome.t = "return"
          /\ Cardinality(EventsOf("callback")) = Len(post_run)
          /\ \A e \in ExecutedEntries :
                /\ HasKey(outcome.v, e.name)
                /\ ~UnderScorerKey(e) => outcome.v.f[e.name] = DimensionResults(e)
          /\ "raising_callback" \in Range(post_run) =>
                /\ HasKey(outcome.v, "scratch")
                /\ outcome.v.f["scratch"] = Str("partial")

\* C14 witness: a run whose first callback raised and whose second, the
\* scorer's, still ran; the returned tree holds a dimension, the raising
\* callback's entry and the scorer's
C14_Witness ==
    /\ pc = "done"
    /\ post_run = <<"raising_callback", "agentic_post_run">>
    /\ DOMAIN outcome.v.f = {"volumetry", "scratch", "agentic_readiness"}

\* the run directory without its trailing separator
StatedRunBase == <<"runs", "/", "r1">>

\* {run_base}/{dimension}_{metric}.png
StatedImgPath(dim_name, metric_name) ==
    StatedRunBase \o <<"/", dim_name, "_", metric_name, ".png">>

\* the executions of metrics so far, in order, and those of plot metrics
ExecutedMetrics == SelectSeq(events, LAMBDA ev : ev.op = "metric")
ExecutedPlots   == SelectSeq(ExecutedMetrics, LAMBDA ev : ev.what = "plot_kpi")

\* the figure writes the sink has received, in order
FigureWrites == SelectSeq(sink, LAMBDA w : w.op = "write_figure")

\* the value of every metric of a dimension's results is as stated: the
\* image record for a plot, and no image record and no figure otherwise
StatedPlotValues(dim_name, results) ==
    \A m \in DOMAIN results.f :
        IF m = "plot_kpi"
        THEN results.f[m] = Dict([type |-> Str("image"),
                                  path |-> Str(StatedImgPath(dim_name, m))])
        ELSE /\ results.f[m] # Str("figure")
             /\ ~(/\ "t" \in DOMAIN results.f[m]
                  /\ results.f[m].t = "dict"
                  /\ HasKey(results.f[m], "type"))

\* C15: the sink has received exactly one figure write per executed plot
\* metric, in order, each under {run_base}/{dimension}_{metric}.png; no
\* other figure write exists, so a non-plot metric writes nothing; and the
\* value of a plot metric in the tree is exactly {type: "image", path},
\* never the figure.
C15_PlotArtifacts ==
    /\ Len(FigureWrites) = Len(ExecutedPlots)
    /\ \A i \in 1..Len(FigureWrites) :
          /\ FigureWrites[i].path = StatedImgPath(ExecutedPlots[i].dim, ExecutedPlots[i].what)
          /\ FigureWrites[i].data = Str("figure")
    /\ pc = "metric" => StatedPlotValues(CurrentEntry.name, dim_results)
    /\ \A e \in ExecutedEntries :
          HasKey(all_results, e.name) => StatedPlotValues(e.name, all_results.f[e.name])

\* C15 witness: a run directory given with a trailing separator, a
\* dimension with a plot and a non-plot metric, finished: one figure
\* written and the image record in the tree
C15_Witness ==
    /\ pc = "done"
    /\ run_dir = <<"runs", "/", "r1", "/">>
    /\ HasKey(outcome.v, "volumetry")
    /\ DOMAIN outcome.v.f["volumetry"].f = {"kpi", "plot_kpi"}
    /\ Len(FigureWrites) = 1
    /\ Len(ExecutedMetrics) = 2

\* x is the composite score record: final_score, classification, weights
\* and sub_scores are its fields
IsScoreRecord(x) ==
    {"final_score", "classification", "weights", "sub_scores"} \subseteq DOMAIN x

\* a tree carries the composite score record directly under the key
\* "agentic_readiness"
CarriesScore(tree) ==
    /\ HasKey(tree, "agentic_readiness")
    /\ IsScoreRecord(tree.f["agentic_readiness"])

\* the results.json documents the sink has received
ResultsJsonWrites ==
    SelectSeq(sink, LAMBDA w : w.op = "write_json"
                               /\ w.path = StatedRunBase \o <<"/", "results.json">>)

\* C16: when a run with the scorer's callback attached has returned, the
\* tree it returned carries the composite score record directly under
\* "agentic_readiness", and so does the results.json it wrote.
C16_ScoreUnderReservedKey ==
    (pc = "done" /\ "agentic_post_run" \in Range(post_run)) =>
        /\ CarriesScore(outcome.v)
        /\ \A i \in 1..Len(ResultsJsonWrites) : CarriesScore(ResultsJsonWrites[i].data)

\* a JSON document holds one of the tokens NaN, Infinity, -Infinity
RECURSIVE HoldsNonFinite(_)
HoldsNonFinite(doc) ==
    CASE doc.t = "json_token"  -> TRUE
      [] doc.t = "json_array"  -> \E i \in DOMAIN doc.items : HoldsNonFinite(doc.items[i])
      [] doc.t = "json_object" -> \E k \in DOMAIN doc.f : HoldsNonFinite(doc.f[k])
      [] OTHER -> FALSE

\* C17: no JSON document written through the sink holds NaN or an
\* infinity, at any depth: where the tree held one the document has null.
C17_NoNonFiniteInJson ==
    \A i \in 1..Len(sink) :
        sink[i].op = "write_json" => ~HoldsNonFinite(sink[i].data)

\* a value is a {labels, values} pair that keeps both axes of the series:
\* as many labels as values, labels[i] the category of values[i]
KeepsBothAxes(value, series) ==
    /\ value.t = "dict"
    /\ DOMAIN value.f = {"labels", "values"}
    /\ value.f["labels"].t = "list" /\ value.f["values"].t = "list"
    /\ Len(value.f["labels"].items) = Len(value.f["values"].items)
    /\ \A i \in 1..Len(series.index) :
          /\ value.f["labels"].items[i] = Str(series.index[i])
          /\ value.f["values"].items[i] = series.values[i]
    /\ Len(value.f["labels"].items) = Len(series.index)

\* C18: whenever a categorical metric of the volume calculator has been
\* executed, under whatever key the dimension is configured, its value in
\* the tree is a {labels, values} pair keeping both axes.
C18_LabelsPreserved ==
    \A e \in ExecutedEntries :
        (e.class = "beyond_metrics.dimensions.VolumetriaMetrics" /\ HasKey(all_results, e.name)) =>
            \A m \in DOMAIN all_results.f[e.name].f :
                m = "volume_by_skill" =>
                    KeepsBothAxes(all_results.f[e.name].f[m],
                                  [index |-> <<"sales", "support">>, values |-> <<Num(30), Num(12)>>])

\* C19: when run() has returned a second time on the same pipeline, with
\* the table, the configuration, the callbacks and the run directory
\* unchanged, the tree it returns is the tree the first call returned, and
\* so are the calls it made and the documents it wrote: nothing of the
\* first run carries over.
C19_RerunIdentical ==
    (previous.done /\ pc = "done") =>
        /\ outcome = previous.outcome
        /\ sink = previous.sink
        /\ events = previous.events

\* C19 witness: the second run has returned, with the scorer's callback
\* attached, results.json written, and a tree in which the scorer computed
\* a sub-score from the volume dimension
C19_Witness ==
    /\ previous.done /\ pc = "done"
    /\ post_run = <<"agentic_post_run">>
    /\ write_results_json
    /\ HasKey(outcome.v, "volumetry")
    /\ HasKey(outcome.v.f["volumetry"], "volume_by_skill")
    /\ outcome.v.f["agentic_readiness"].f["agentic_readiness"].final_score = Num(0)


\* the paths of a sequence of writes, in order
PathsOf(writes) == [i \in 1..Len(writes) |-> writes[i].path]

\* C20: in a run that has returned, the table was read exactly once, the
\* sink received exactly one figure write per executed plot metric and,
\* besides these, exactly one write of results.json under
\* {run_base}/results.json when write_results_json is true and none when
\* it is false; a second run with the same run directory wrote to the same
\* paths as the first.
C20_CollaboratorInteractions ==
    pc = "done" =>
        /\ Cardinality(EventsOf("read_csv")) = 1
        /\ Len(FigureWrites) = Len(ExecutedPlots)
        /\ Len(ResultsJsonWrites) = (IF write_results_json THEN 1 ELSE 0)
        /\ Len(sink) = Len(FigureWrites) + Len(ResultsJsonWrites)
        /\ previous.done => PathsOf(sink) = PathsOf(previous.sink)

\* C20 witness: a second run has returned after two plot metrics and the
\* write of results.json, three writes in all
C20_Witness ==
    /\ pc = "done" /\ previous.done
    /\ write_results_json
    /\ Len(FigureWrites) = 2
    /\ Len(sink) = 3
    /\ Len(previous.sink) = 3

-----------------------------------------------------------------------------
(* The dimension calculators.  A table is its set of columns and its rows; *)
(* a row is a record with one cell per column name, and the cells of a     *)
(* column the table does not have are never read.  A text cell is the      *)
(* sequence of its pieces, blanks included; a moment is a whole number of  *)
(* days; a cell that is no moment becomes NaT under pd.to_datetime.        *)

\* a datetime, counted in days
Timestamp(day) == [t |-> "ts", n |-> day, d |-> 1]

REQUIRED_COLUMNS_VOLUMETRIA ==
    <<"interaction_id", "datetime_start", "queue_skill", "channel">>

REQUIRED_COLUMNS_OP ==
    <<"interaction_id", "datetime_start", "queue_skill", "channel",
      "duration_talk", "hold_time", "wrap_up_time", "agent_id", "transfer_flag">>

REQUIRED_COLUMNS_ECON ==
    <<"interaction_id", "datetime_start", "queue_skill", "channel",
      "duration_talk", "hold_time", "wrap_up_time">>

REQUIRED_COLUMNS_SAT ==
    <<"interaction_id", "datetime_start", "queue_skill", "channel",
      "duration_talk", "hold_time", "wrap_up_time">>

Classes == {"VolumetriaMetrics", "OperationalPerformanceMetrics",
            "EconomyCostMetrics", "SatisfactionExperienceMetrics"}

RequiredColumns(class) ==
    CASE class = "VolumetriaMetrics"             -> REQUIRED_COLUMNS_VOLUMETRIA
      [] class = "OperationalPerformanceMetrics" -> REQUIRED_COLUMNS_OP
      [] class = "EconomyCostMetrics"            -> REQUIRED_COLUMNS_ECON
      [] class = "SatisfactionExperienceMetrics" -> REQUIRED_COLUMNS_SAT

\* the members of seq that are not among columns, in order
RECURSIVE SelectCols(_, _)
SelectCols(seq, columns) ==
    IF seq = <<>> THEN <<>>
    ELSE IF Head(seq) \in columns
         THEN SelectCols(Tail(seq), columns)
         ELSE <<Head(seq)>> \o SelectCols(Tail(seq), columns)

\* mutant of Missing: the search stops at the first column not found
MissingFirstOnly(class, columns) ==
    LET all == SelectCols(RequiredColumns(class), columns)
    IN IF all = <<>> THEN <<>> ELSE <<Head(all)>>

\* missing = [c for c in REQUIRED_COLUMNS if c not in self.df.columns]
Missing(class, columns) == SelectCols(RequiredColumns(class), columns)

\* _validate_columns: the exception raised, or None
_validate_columns(class, columns) ==
    LET missing == Missing(class, columns)
    IN IF missing # <<>>
       THEN [t |-> "ValueError", class |-> class, missing |-> missing]
       ELSE None

NaT == [t |-> "nat", n |-> 0, d |-> 1]

\* pd.to_datetime(cell, errors="coerce")
to_datetime(cell) == IF cell.t = "ts" THEN cell ELSE NaT

\* a text cell
Text(pieces) == Str(pieces)

RECURSIVE StripPieces(_)
StripPieces(pieces) ==
    IF pieces = <<>> THEN pieces
    ELSE IF Head(pieces) = " " THEN StripPieces(Tail(pieces))
    ELSE IF pieces[Len(pieces)] = " "
         THEN StripPieces(SubSeq(pieces, 1, Len(pieces) - 1))
    ELSE pieces

\* astype(str).str.strip() of a text cell
Strip(text) == Text(StripPieces(text.s))

\* one row with the cell of column c replaced or added
WithCell(row, c, v) == [x \in DOMAIN row \cup {c} |-> IF x = c THEN v ELSE row[x]]

\* the row-wise rewrite of a frame
MapRows(frame, F(_)) ==
    [columns |-> frame.columns,
     rows    |-> [i \in DOMAIN frame.rows |-> F(frame.rows[i])]]

\* VolumetriaMetrics._prepare_data, on the copy it takes of the table
Volumetria_prepare_data(frame) ==
    LET Prepared(row) ==
            [row EXCEPT !.datetime_start = to_datetime(@),
                        !.queue_skill    = Strip(@),
                        !.channel        = Strip(@)]
    IN MapRows(frame, Prepared)

\* the labels the tables use, in the order of str
Labels == <<"chat", "sales", "support", "voice">>

LabelRank(text) == CHOOSE i \in DOMAIN Labels : Labels[i] = text.s[1]

\* the positions of the rows whose cell of column c is k
RowsOf(rows, c, k) == {i \in DOMAIN rows : rows[i][c] = k}

\* the keys of groupby(c), in ascending order
RECURSIVE Ascending(_)
Ascending(keys) ==
    IF keys = {} THEN <<>>
    ELSE LET first == CHOOSE k \in keys :
                          \A other \in keys : LabelRank(k) <= LabelRank(other)
         IN <<first>> \o Ascending(keys \ {first})

GroupKeys(rows, c) == Ascending({rows[i][c] : i \in DOMAIN rows})

\* groupby(c)["interaction_id"].nunique(): for each key in ascending order,
\* the number of distinct interaction_id values among the rows of the key
NUniqueByCounted(rows, c) ==
    LET keys == GroupKeys(rows, c)
    IN [i \in DOMAIN keys |->
           [key   |-> keys[i],
            count |-> Cardinality({rows[r].interaction_id :
                                      r \in RowsOf(rows, c, keys[i])})]]

\* sort_values(ascending=False): by count from the largest, equal counts in
\* the order they had
RECURSIVE Descending(_)
Descending(groups) ==
    IF groups = <<>> THEN <<>>
    ELSE LET top == CHOOSE i \in DOMAIN groups :
                        /\ \A j \in DOMAIN groups : groups[j].count <= groups[i].count
                        /\ \A j \in 1..(i - 1) : groups[j].count < groups[i].count
             rest == [j \in 1..(Len(groups) - 1) |->
                         IF j < top THEN groups[j] ELSE groups[j + 1]]
         IN <<groups[top]>> \o Descending(rest)

\* self.df.groupby(c)["interaction_id"].nunique().sort_values(ascending=False)
NUniqueBy(frame, c) ==
    LET groups == Descending(NUniqueByCounted(frame.rows, c))
    IN Series([i \in DOMAIN groups |-> groups[i].key.s[1]],
              [i \in DOMAIN groups |-> Num(groups[i].count)])

volume_by_channel(frame) == NUniqueBy(frame, "channel")

volume_by_skill(frame) == NUniqueBy(frame, "queue_skill")

\* a Python bool
PyBool(b) == [t |-> "bool", n |-> IF b THEN 1 ELSE 0, d |-> 1]

\* pd.to_numeric(cell, errors="coerce")
to_numeric(cell) == IF cell.t = "num" THEN cell ELSE NaN

\* fillna(0)
fillna0(x) == IF x.t \in {"nan", "none", "nat"} THEN Num(0) ELSE x

\* duration_talk.fillna(0) + hold_time.fillna(0) + wrap_up_time.fillna(0),
\* over the cells already made numeric
handle_time(row) ==
    Add(Add(fillna0(to_numeric(row.duration_talk)), fillna0(to_numeric(row.hold_time))),
        fillna0(to_numeric(row.wrap_up_time)))

\* the three durations made numeric and handle_time added
WithDurations(row) ==
    WithCell([row EXCEPT !.duration_talk = to_numeric(@),
                         !.hold_time     = to_numeric(@),
                         !.wrap_up_time  = to_numeric(@)],
             "handle_time", handle_time(row))

\* str.upper() of a text cell
UpperPiece(piece) ==
    CASE piece = "valid" -> "VALID"
      [] piece = "noise" -> "NOISE"
      [] OTHER           -> piece

Upper(text) == Text([i \in DOMAIN text.s |-> UpperPiece(text.s[i])])

\* astype(int).astype(bool) of a flag cell
AsBool(cell) == PyBool(cell.n # 0)

\* the cells of row for the columns given, the others as they are
MapCells(row, columns, F(_)) ==
    [c \in DOMAIN row |-> IF c \in columns THEN F(row[c]) ELSE row[c]]

\* OperationalPerformanceMetrics._prepare_data, on the copy it takes
OP_prepare_data(frame) ==
    LET flags == {"is_resolved", "abandoned_flag", "transfer_flag"} \cap frame.columns
        Status(row) ==
            IF "record_status" \in frame.columns
            THEN LET status == Upper(Strip(row.record_status))
                 IN WithCell([row EXCEPT !.record_status = status],
                             "_is_valid_for_cv", PyBool(status = Text(<<"VALID">>)))
            ELSE WithCell(row, "_is_valid_for_cv", PyBool(TRUE))
        Customer(row) ==
            IF "customer_id" \in frame.columns THEN row
            ELSE IF "caller_id" \in frame.columns
                 THEN WithCell(row, "customer_id", row.caller_id)
                 ELSE WithCell(row, "customer_id", None)
        Logged(row) ==
            WithCell(row, "logged_time",
                     IF "logged_time" \in frame.columns
                     THEN to_numeric(row.logged_time) ELSE NaN)
        Prepared(row) ==
            Logged(Customer(
                MapCells(
                    MapCells(Status(WithDurations(
                                 [row EXCEPT !.datetime_start = to_datetime(@)])),
                             {"queue_skill", "channel", "agent_id"}, Strip),
                    flags, AsBool)))
    IN [columns |-> frame.columns \cup {"handle_time", "_is_valid_for_cv",
                                        "customer_id", "logged_time"},
        rows    |-> [i \in DOMAIN frame.rows |-> Prepared(frame.rows[i])]]

\* EconomyCostMetrics._prepare_data, on the copy it takes
Economy_prepare_data(frame) ==
    LET Prepared(row) ==
            MapCells(WithDurations([row EXCEPT !.datetime_start = to_datetime(@)]),
                     {"queue_skill", "channel"}, Strip)
    IN [columns |-> frame.columns \cup {"handle_time"},
        rows    |-> [i \in DOMAIN frame.rows |-> Prepared(frame.rows[i])]]

\* SatisfactionExperienceMetrics._prepare_data, on the copy it takes
Satisfaction_prepare_data(frame) ==
    LET Score(row, c) ==
            WithCell(row, c, IF c \in frame.columns THEN to_numeric(row[c]) ELSE NaN)
        Aht(row) ==
            WithCell(row, "aht", IF "aht" \in frame.columns
                                 THEN to_numeric(row.aht) ELSE row.handle_time)
        Prepared(row) ==
            MapCells(
                Score(Score(Aht(Score(
                    WithDurations([row EXCEPT !.datetime_start = to_datetime(@)]),
                    "csat_score")), "nps_score"), "ces_score"),
                {"queue_skill", "channel"}, Strip)
    IN [columns |-> frame.columns \cup {"handle_time", "csat_score", "aht",
                                        "nps_score", "ces_score"},
        rows    |-> [i \in DOMAIN frame.rows |-> Prepared(frame.rows[i])]]

\* the number of rows whose cell of column c is a number above 0 or True:
\* (pd.to_numeric(col, errors="coerce").fillna(0) > 0).sum(), and the sum of
\* a column of bools
CountSet(rows, c) ==
    Cardinality({i \in DOMAIN rows : rows[i][c].t \in {"num", "bool"} /\ rows[i][c].n > 0})

\* round(count / total * 100, 2)
Pct(count, total) == Round2(Mul(Div(Num(count), Num(total)), Num(100)))

\* OperationalPerformanceMetrics.escalation_rate
escalation_rate(frame) ==
    LET total == Len(frame.rows)
    IN IF total = 0 THEN NaN
       ELSE Pct(CountSet(frame.rows, "transfer_flag"), total)

\* max(0.0, min(100.0, round(fcr, 2)))
ClampPct(fcr) == PyMax(Num(0), PyMin(Num(100), Round2(fcr)))

\* OperationalPerformanceMetrics.fcr_rate
fcr_rate(frame) ==
    LET total == Len(frame.rows)
        esc   == escalation_rate(frame)
    IN IF total = 0 THEN NaN
       ELSE IF "fcr_real_flag" \in frame.columns
       THEN ClampPct(Mul(Div(Num(CountSet(frame.rows, "fcr_real_flag")), Num(total)),
                         Num(100)))
       ELSE IF ~_is_nan(esc)
       THEN ClampPct(Sub(Num(100), esc))
       ELSE NaN

\* the first of is_abandoned, abandoned_flag, abandoned the frame has
AbandonColumn(columns) ==
    IF "is_abandoned" \in columns THEN "is_abandoned"
    ELSE IF "abandoned_flag" \in columns THEN "abandoned_flag"
    ELSE IF "abandoned" \in columns THEN "abandoned"
    ELSE ""

\* mutant of abandonment_rate: no abandonment column read as no abandonment
abandonment_rate_or_zero(frame) ==
    LET total == Len(frame.rows)
        abandon_col == AbandonColumn(frame.columns)
    IN IF total = 0 THEN NaN
       ELSE IF abandon_col = "" THEN Num(0)
       ELSE Pct(CountSet(frame.rows, abandon_col), total)

\* OperationalPerformanceMetrics.abandonment_rate
abandonment_rate(frame) ==
    LET total == Len(frame.rows)
        abandon_col == AbandonColumn(frame.columns)
    IN IF total = 0 THEN NaN
       ELSE IF abandon_col = "" THEN NaN
       ELSE Pct(CountSet(frame.rows, abandon_col), total)

\* the days of the rows at the positions given, in ascending order:
\* sort_values([..., "datetime_start"]) within one customer and queue
RECURSIVE SortedDays(_, _)
SortedDays(rows, positions) ==
    IF positions = {} THEN <<>>
    ELSE LET first == CHOOSE i \in positions :
                          \A j \in positions :
                              rows[i].datetime_start.n <= rows[j].datetime_start.n
         IN <<rows[first].datetime_start.n>> \o SortedDays(rows, positions \ {first})

\* mutant of WithinWeek: a return on the seventh day counted too
WithinWeekInclusive(delta) == delta <= 7

\* delta < pd.Timedelta(days=7)
WithinWeek(delta) == delta < 7

\* groupby(["customer_id", "queue_skill"])["datetime_start"].diff() has a
\* value below 7 days for the customer and queue given
HasRecurrence(rows, customer, skill) ==
    LET group == {i \in DOMAIN rows : /\ rows[i].customer_id = customer
                                      /\ rows[i].queue_skill = skill}
        days  == SortedDays(rows, group)
    IN \E k \in 2..Len(days) : WithinWeek(days[k] - days[k - 1])

\* dropna(subset=[c]): the rows whose cell of column c is a value, in order
RECURSIVE dropna(_, _)
dropna(rows, c) ==
    IF rows = <<>> THEN <<>>
    ELSE IF Head(rows)[c].t \in {"nat", "nan", "none"}
         THEN dropna(Tail(rows), c)
         ELSE <<Head(rows)>> \o dropna(Tail(rows), c)

\* OperationalPerformanceMetrics.recurrence_rate_7d
recurrence_rate_7d(frame) ==
    LET dated     == dropna(frame.rows, "datetime_start")
        rows      == IF "customer_id" \in frame.columns
                     THEN dropna(dated, "customer_id") ELSE <<>>
        customers == {rows[i].customer_id : i \in DOMAIN rows}
        skills    == {rows[i].queue_skill : i \in DOMAIN rows}
        recurrent_customers ==
            Cardinality({c \in customers : \E s \in skills : HasRecurrence(rows, c, s)})
        total_customers == Cardinality(customers)
    IN IF "customer_id" \notin frame.columns THEN NaN
       ELSE IF rows = <<>> THEN NaN
       ELSE IF total_customers = 0 THEN NaN
       ELSE Round2(Mul(Div(Num(recurrent_customers), Num(total_customers)), Num(100)))

\* round(x, 3) of a float
Round3(x) ==
    IF x.t # "num" THEN x
    ELSE LET num == x.n * 1000
             q   == Floor(num, x.d)
             r2  == 2 * (num - q * x.d)
             k   == IF r2 < x.d THEN q
                    ELSE IF r2 > x.d THEN q + 1
                    ELSE IF q % 2 = 0 THEN q ELSE q + 1
         IN Rat(k, 1000)

\* round(x, 2) of a float that may be NaN
RoundOrNaN(x) == IF x.t # "num" THEN x ELSE Round2(x)

\* the cells of column c at the positions given, without the missing ones,
\* in ascending order
RECURSIVE SortedCells(_, _, _)
SortedCells(rows, c, positions) ==
    LET present == {i \in positions : rows[i][c].t = "num"}
    IN IF present = {} THEN <<>>
       ELSE LET first == CHOOSE i \in present :
                             \A j \in present : Le(rows[i][c], rows[j][c])
            IN <<rows[first][c]>> \o SortedCells(rows, c, present \ {first})

\* np.percentile(values, q) of a sorted, non-empty sequence: linear
\* interpolation between the two closest ranks
Percentile(sorted, q) ==
    LET n    == Len(sorted)
        lo   == (q * (n - 1)) \div 100
        frac == Rat(q * (n - 1) - 100 * lo, 100)
        hi   == IF lo + 2 <= n THEN lo + 2 ELSE n
    IN Add(sorted[lo + 1], Mul(frac, Sub(sorted[hi], sorted[lo + 1])))

\* self.df[self.df["_is_valid_for_cv"] == True]
ValidPositions(rows) == {i \in DOMAIN rows : rows[i]["_is_valid_for_cv"] = PyBool(TRUE)}

\* OperationalPerformanceMetrics.aht_distribution
aht_distribution(frame) ==
    LET ht == SortedCells(frame.rows, "handle_time", ValidPositions(frame.rows))
        p10 == Percentile(ht, 10)
        p50 == Percentile(ht, 50)
        p90 == Percentile(ht, 90)
        ratio == IF Gt(p50, Num(0)) THEN Div(p90, p50) ELSE NaN
    IN IF ht = <<>> THEN EmptyDict
       ELSE Dict([p10 |-> Round2(p10), p50 |-> Round2(p50), p90 |-> Round2(p90),
                  p90_p50_ratio |-> Round3(ratio)])

\* perc(s, 50) of the cells of column c at the positions given
Perc50(rows, c, positions) ==
    LET cells == SortedCells(rows, c, positions)
    IN IF cells = <<>> THEN NaN ELSE Percentile(cells, 50)

\* OperationalPerformanceMetrics.talk_hold_acw_p50_by_skill: one record per
\* queue, in the order of the queues
talk_hold_acw_p50_by_skill(frame) ==
    LET skills == GroupKeys(frame.rows, "queue_skill")
        P50(k, c) == RoundOrNaN(Perc50(frame.rows, c, RowsOf(frame.rows, "queue_skill", k)))
    IN List([i \in DOMAIN skills |->
                Dict([queue_skill |-> skills[i],
                      talk_p50    |-> P50(skills[i], "duration_talk"),
                      hold_p50    |-> P50(skills[i], "hold_time"),
                      acw_p50     |-> P50(skills[i], "wrap_up_time")])])

\* group[c].mean(): the mean of the cells of column c at the positions
\* given, the missing ones skipped
Mean(rows, c, positions) ==
    LET cells == SortedCells(rows, c, positions)
    IN IF cells = <<>> THEN NaN ELSE DivInt(PySum(cells), Len(cells))

\* the first of repeat_call_7d, repeat_7d, is_repeat_7d the frame has
RepeatColumn(columns) ==
    IF "repeat_call_7d" \in columns THEN "repeat_call_7d"
    ELSE IF "repeat_7d" \in columns THEN "repeat_7d"
    ELSE IF "is_repeat_7d" \in columns THEN "is_repeat_7d"
    ELSE ""

\* the record metrics_by_skill makes for the rows at the positions given
SkillMetrics(frame, skill, group) ==
    LET rows  == frame.rows
        total == Cardinality(group)
        abandon_col == AbandonColumn(frame.columns)
        repeat_col  == RepeatColumn(frame.columns)
        Set1(i, c)  == rows[i][c].t \in {"num", "bool"} /\ rows[i][c].n > 0
        transfer_rate == Pct(Cardinality({i \in group : Set1(i, "transfer_flag")}), total)
        fcr_tecnico   == Round2(Sub(Num(100), transfer_rate))
        valid_records == group \cap ValidPositions(rows)
    IN Dict([skill            |-> skill,
             volume           |-> Num(total),
             transfer_rate    |-> transfer_rate,
             abandonment_rate |->
                 IF abandon_col = "" THEN Num(0)
                 ELSE Pct(Cardinality({i \in group : Set1(i, abandon_col)}), total),
             fcr_tecnico      |-> fcr_tecnico,
             fcr_real         |->
                 IF repeat_col = "" THEN fcr_tecnico
                 ELSE Pct(Cardinality({i \in group : /\ ~Set1(i, "transfer_flag")
                                                     /\ ~Set1(i, repeat_col)}), total),
             aht_mean         |->
                 IF valid_records # {}
                 THEN RoundOrNaN(Mean(rows, "handle_time", valid_records)) ELSE Num(0),
             aht_total        |-> RoundOrNaN(Mean(rows, "handle_time", group)),
             hold_time_mean   |->
                 IF valid_records # {}
                 THEN RoundOrNaN(Mean(rows, "hold_time", valid_records)) ELSE Num(0)])

\* OperationalPerformanceMetrics.metrics_by_skill
metrics_by_skill(frame) ==
    LET skills == GroupKeys(frame.rows, "queue_skill")
    IN List([i \in DOMAIN skills |->
                SkillMetrics(frame, skills[i],
                             RowsOf(frame.rows, "queue_skill", skills[i]))])

-----------------------------------------------------------------------------
(* EconomyCostMetrics *)

\* round(x, 4) of a float
Round4(x) ==
    IF x.t # "num" THEN x
    ELSE LET num == x.n * 10000
             q   == Floor(num, x.d)
             r2  == 2 * (num - q * x.d)
             k   == IF r2 < x.d THEN q
                    ELSE IF r2 > x.d THEN q + 1
                    ELSE IF q % 2 = 0 THEN q ELSE q + 1
         IN Rat(k, 10000)

EconomyConfig(labor, overhead, tech, cpi, share, success) ==
    [t |-> "EconomyConfig",
     labor_cost_per_hour     |-> labor,
     overhead_rate           |-> overhead,
     tech_costs_annual       |-> tech,
     automation_cpi          |-> cpi,
     automation_volume_share |-> share,
     automation_success_rate |-> success]

\* pd.DataFrame: its rows, one record each; pd.DataFrame() has none
DataFrame(rows) == [t |-> "frame", rows |-> rows]
EmptyFrame == DataFrame(<<>>)

\* mutant of _has_cost_config: the configuration taken for granted
HasCostConfigAlways(self) == TRUE

\* EconomyCostMetrics._has_cost_config
_has_cost_config(self) ==
    /\ self.config.t # "none"
    /\ self.config.labor_cost_per_hour.t # "none"

\* assert cfg is not None
AssertionError == Raised([t |-> "AssertionError"])

\* arithmetic on a labor cost that is None
TypeError == Raised([t |-> "TypeError"])

\* the keys of groupby(["queue_skill", "channel"]), in ascending order
RECURSIVE AscendingPairs(_)
AscendingPairs(keys) ==
    IF keys = {} THEN <<>>
    ELSE LET Before(a, b) ==
                 \/ LabelRank(a[1]) < LabelRank(b[1])
                 \/ LabelRank(a[1]) = LabelRank(b[1]) /\ LabelRank(a[2]) <= LabelRank(b[2])
             first == CHOOSE k \in keys : \A other \in keys : Before(k, other)
         IN <<first>> \o AscendingPairs(keys \ {first})

SkillChannels(rows) ==
    AscendingPairs({<<rows[i].queue_skill, rows[i].channel>> : i \in DOMAIN rows})

\* the positions of the rows of one queue and channel
PairRows(rows, key) ==
    {i \in DOMAIN rows : rows[i].queue_skill = key[1] /\ rows[i].channel = key[2]}

\* EconomyCostMetrics.cpi_by_skill_channel
cpi_by_skill_channel(self) ==
    LET cfg  == self.config
        rows == self.df.rows
        keys == SkillChannels(rows)
        Row(key) ==
            LET aht_sec    == Mean(rows, "handle_time", PairRows(rows, key))
                aht_hours  == DivInt(aht_sec, 3600)
                labor_cost == Mul(cfg.labor_cost_per_hour, aht_hours)
                overhead   == Mul(labor_cost, cfg.overhead_rate)
                cpi        == Add(labor_cost, overhead)
            IN Dict([queue_skill   |-> key[1],
                     channel       |-> key[2],
                     aht_seconds   |-> RoundOrNaN(aht_sec),
                     labor_cost    |-> Round4(labor_cost),
                     overhead_cost |-> Round4(overhead),
                     cpi_total     |-> Round4(cpi)])
    IN IF ~_has_cost_config(self) THEN Returned(EmptyFrame)
       ELSE IF cfg.t = "none" THEN AssertionError
       ELSE IF rows = <<>> THEN Returned(EmptyFrame)
       ELSE IF cfg.labor_cost_per_hour.t = "none" THEN TypeError
       ELSE Returned(DataFrame([i \in DOMAIN keys |-> Row(keys[i])]))

\* groupby(["queue_skill", "channel"])["interaction_id"].nunique() for one key
Volume(rows, key) == Cardinality({rows[i].interaction_id : i \in PairRows(rows, key)})

\* cpi_table.join(volume, how="left").fillna({"volume": 0})
JoinVolume(self, cpi_table) ==
    [i \in DOMAIN cpi_table.rows |->
        LET r == cpi_table.rows[i]
        IN DictSet(r, "volume",
                   Num(Volume(self.df.rows, <<r.f.queue_skill, r.f.channel>>)))]

\* annual_cost_by_skill_channel once the table of costs is there
AnnualCostOf(self, cpi) ==
    IF cpi.t = "raise" THEN cpi
    ELSE IF cpi.v.rows = <<>> THEN Returned(EmptyFrame)
    ELSE Returned(DataFrame(
             [i \in DOMAIN cpi.v.rows |->
                 LET r == JoinVolume(self, cpi.v)[i]
                 IN DictSet(r, "annual_cost",
                            RoundOrNaN(Mul(r.f.cpi_total, r.f.volume)))]))

\* EconomyCostMetrics.annual_cost_by_skill_channel
annual_cost_by_skill_channel(self) == AnnualCostOf(self, cpi_by_skill_channel(self))

\* (joined[c] * joined["volume"]).sum()
SumTimesVolume(joined, c) ==
    PySum([i \in DOMAIN joined |-> Mul(joined[i].f[c], joined[i].f.volume)])

\* the shares and amounts of cost_breakdown, from the annual amounts
BreakdownOf(annual_labor, annual_overhead, annual_tech, total) ==
    IF Le(total, Num(0)) THEN Returned(EmptyDict)
    ELSE Returned(Dict(
             [labor_pct       |-> RoundOrNaN(Mul(Div(annual_labor, total), Num(100))),
              overhead_pct    |-> RoundOrNaN(Mul(Div(annual_overhead, total), Num(100))),
              tech_pct        |-> RoundOrNaN(Mul(Div(annual_tech, total), Num(100))),
              labor_annual    |-> RoundOrNaN(annual_labor),
              overhead_annual |-> RoundOrNaN(annual_overhead),
              tech_annual     |-> RoundOrNaN(annual_tech),
              total_annual    |-> RoundOrNaN(total)]))

\* cost_breakdown once the table of costs with the volumes is there
CostBreakdownOf(cfg, joined) ==
    BreakdownOf(SumTimesVolume(joined, "labor_cost"),
                SumTimesVolume(joined, "overhead_cost"),
                cfg.tech_costs_annual,
                Add(Add(SumTimesVolume(joined, "labor_cost"),
                        SumTimesVolume(joined, "overhead_cost")),
                    cfg.tech_costs_annual))

\* cost_breakdown once the table of costs is there
CostBreakdownFrom(self, cpi) ==
    IF cpi.t = "raise" THEN cpi
    ELSE IF cpi.v.rows = <<>> THEN Returned(EmptyDict)
    ELSE CostBreakdownOf(self.config, JoinVolume(self, cpi.v))

\* EconomyCostMetrics.cost_breakdown
cost_breakdown(self) ==
    IF ~_has_cost_config(self) THEN Returned(EmptyDict)
    ELSE IF self.config.t = "none" THEN AssertionError
    ELSE CostBreakdownFrom(self, cpi_by_skill_channel(self))

\* one row of inefficiency_cost_by_skill_channel: the percentiles of the
\* handle times of a queue and channel, the seconds lost between them by
\* 40 % of its contacts, and their cost at the labor cost per second
InefficiencyRow(key, cells, aht_p50, aht_p90, aht_mean, labor_cost) ==
    LET volume == Num(Len(cells))
        delta  == PyMax(Num(0), Sub(aht_p90, aht_p50))
        ineff_seconds == Mul(Mul(delta, volume), Rat(2, 5))
        cost_per_second ==
            IF aht_mean.t # "num" \/ aht_mean.n = 0 THEN Num(0)
            ELSE Div(labor_cost, aht_mean)
    IN Dict([queue_skill   |-> key[1],
             channel       |-> key[2],
             aht_p50       |-> aht_p50,
             aht_p90       |-> aht_p90,
             volume        |-> volume,
             ineff_seconds |-> RoundOrNaN(ineff_seconds),
             ineff_cost    |-> RoundOrNaN(Mul(ineff_seconds, cost_per_second))])

\* the rows of inefficiency_cost_by_skill_channel from the sorted handle
\* times of each queue and channel
InefficiencyRows(rows, keys, cells, cpi_rows) ==
    [i \in DOMAIN keys |->
        InefficiencyRow(keys[i], cells[i],
                        Percentile(cells[i], 50), Percentile(cells[i], 90),
                        Mean(rows, "handle_time", PairRows(rows, keys[i])),
                        cpi_rows[i].f.labor_cost)]

\* inefficiency_cost_by_skill_channel once the table of costs is there
InefficiencyOf(rows, keys, cpi) ==
    IF keys = <<>> THEN Returned(EmptyFrame)
    ELSE IF cpi.t = "raise" THEN cpi
    ELSE IF cpi.v.rows = <<>> THEN Returned(EmptyFrame)
    ELSE Returned(DataFrame(
             InefficiencyRows(rows, keys,
                              [i \in DOMAIN keys |->
                                  SortedCells(rows, "handle_time",
                                              PairRows(rows, keys[i]))],
                              cpi.v.rows)))

\* EconomyCostMetrics.inefficiency_cost_by_skill_channel
inefficiency_cost_by_skill_channel(self) ==
    IF ~_has_cost_config(self) THEN Returned(EmptyFrame)
    ELSE IF self.config.t = "none" THEN AssertionError
    ELSE InefficiencyOf(self.df.rows, SkillChannels(self.df.rows),
                        cpi_by_skill_channel(self))

\* the mapping of potential_savings from the weighted cost per contact and
\* the total volume
SavingsOf(cfg, weighted_cpi, total_volume) ==
    LET volume_automatizable == Mul(total_volume, cfg.automation_volume_share)
        effective_volume     == Mul(volume_automatizable, cfg.automation_success_rate)
        delta_cpi      == PyMax(Num(0), Sub(weighted_cpi, cfg.automation_cpi))
        annual_savings == Mul(delta_cpi, effective_volume)
    IN Returned(Dict([cpi_humano           |-> Round4(weighted_cpi),
                      cpi_automatizado     |-> Round4(cfg.automation_cpi),
                      volume_total         |-> total_volume,
                      volume_automatizable |-> volume_automatizable,
                      effective_volume     |-> effective_volume,
                      annual_savings       |-> RoundOrNaN(annual_savings)]))

\* potential_savings from the rows of the annual costs and their total volume
SavingsFrom(cfg, table_rows, total_volume) ==
    IF Le(total_volume, Num(0)) THEN Returned(EmptyDict)
    ELSE SavingsOf(cfg, Div(SumTimesVolume(table_rows, "cpi_total"), total_volume),
                   total_volume)

\* potential_savings once the table of annual costs is there
PotentialSavingsOf(cfg, annual) ==
    IF annual.t = "raise" THEN annual
    ELSE IF annual.v.rows = <<>> THEN Returned(EmptyDict)
    ELSE SavingsFrom(cfg, annual.v.rows,
                     PySum([i \in DOMAIN annual.v.rows |-> annual.v.rows[i].f.volume]))

\* EconomyCostMetrics.potential_savings
potential_savings(self) ==
    IF ~_has_cost_config(self) THEN Returned(EmptyDict)
    ELSE IF self.config.t = "none" THEN AssertionError
    ELSE IF \/ self.config.automation_cpi.t = "none"
            \/ Le(self.config.automation_volume_share, Num(0))
            \/ Le(self.config.automation_success_rate, Num(0))
         THEN Returned(EmptyDict)
    ELSE PotentialSavingsOf(self.config, annual_cost_by_skill_channel(self))

\* the metrics of EconomyCostMetrics
EconomyMetrics ==
    {"cpi_by_skill_channel", "annual_cost_by_skill_channel", "cost_breakdown",
     "inefficiency_cost_by_skill_channel", "potential_savings"}

-----------------------------------------------------------------------------
(* Tables *)

\* the rows a table may have at most
MaxRows == 3

SeqsUpTo(S, n) == UNION {[1..k -> S] : k \in 0..n}

\* a row of one voice contact on the sales queue
DefaultRow ==
    [interaction_id |-> "i1",
     datetime_start |-> Timestamp(0),
     queue_skill    |-> Text(<<"sales">>),
     channel        |-> Text(<<"voice">>),
     duration_talk  |-> Num(10),
     hold_time      |-> Num(0),
     wrap_up_time   |-> Num(0),
     agent_id       |-> Text(<<"a1">>),
     transfer_flag  |-> Num(0),
     is_resolved    |-> Num(0),
     fcr_real_flag  |-> Num(0),
     abandoned_flag |-> Num(0),
     customer_id    |-> Text(<<"c1">>),
     record_status  |-> Text(<<"VALID">>)]

Set(seq) == {seq[i] : i \in DOMAIN seq}

\* tables of contacts that differ in id, channel and queue, one id possibly
\* on several rows
VolumeRows ==
    {[DefaultRow EXCEPT !.interaction_id = i, !.channel = c] :
        i \in {"i1", "i2"}, c \in {Text(<<"voice">>), Text(<<"chat">>)}}
    \cup {[DefaultRow EXCEPT !.interaction_id = i,
                             !.queue_skill = Text(<<"support", " ">>)] :
            i \in {"i1", "i2"}}

\* the table of the columns given, each row keeping the cells of these
Table(columns, rows) ==
    [columns |-> columns,
     rows    |-> [i \in DOMAIN rows |-> [c \in columns |-> rows[i][c]]]]

VolumeTables ==
    {Table(Set(REQUIRED_COLUMNS_OP), r) : r \in SeqsUpTo(VolumeRows, MaxRows)}

\* the columns no calculator requires
OptionalColumns ==
    {"is_resolved", "fcr_real_flag", "abandoned_flag", "customer_id", "record_status"}

\* required columns a table may lack: one that every calculator requires,
\* one that three of them require, two that only one requires
Droppable == {"interaction_id", "channel", "hold_time", "agent_id", "transfer_flag"}

\* one-row tables that lack any of the droppable columns, with every
\* optional column or with none
ColumnTables ==
    {Table((DOMAIN DefaultRow \ dropped) \ optional, <<DefaultRow>>) :
        dropped \in SUBSET Droppable, optional \in {{}, OptionalColumns}}

\* tables of contacts that differ in their transfer, resolution and
\* first-contact flags, with or without the two optional flag columns
FlagRows ==
    {[DefaultRow EXCEPT !.transfer_flag = Num(x), !.is_resolved = Num(rf[1]),
                        !.fcr_real_flag = Num(rf[2])] :
        x \in {0, 1}, rf \in {<<0, 0>>, <<1, 0>>, <<0, 1>>}}

FlagTables ==
    {Table(Set(REQUIRED_COLUMNS_OP) \cup optional, r) :
        optional \in SUBSET {"is_resolved", "fcr_real_flag"},
        r \in SeqsUpTo(FlagRows, MaxRows)}

\* tables of contacts of one customer on one queue on day 0, 6 or 7, of
\* that customer on another queue, of that customer with a cell that is no
\* date, and of a second customer
ContactRows ==
    {[DefaultRow EXCEPT !.customer_id = Text(<<"c1">>), !.datetime_start = d] :
        d \in {Timestamp(0), Timestamp(6), Timestamp(7)}}
    \cup {[DefaultRow EXCEPT !.customer_id = Text(<<"c1">>),
                             !.queue_skill = Text(<<"support">>),
                             !.datetime_start = Timestamp(6)],
          [DefaultRow EXCEPT !.customer_id = Text(<<"c1">>),
                             !.datetime_start = Str("n/a")],
          [DefaultRow EXCEPT !.customer_id = Text(<<"c2">>)]}

ContactTables ==
    {Table(Set(REQUIRED_COLUMNS_OP) \cup {"customer_id"}, r) :
        r \in SeqsUpTo(ContactRows, MaxRows)}

\* tables of short and long contacts, on one queue marked as valid (in
\* lower case, with a blank) or as noise and on another queue all valid,
\* with or without the status column
StatusRows ==
    {[DefaultRow EXCEPT !.duration_talk = Num(d), !.record_status = r] :
        d \in {10, 90}, r \in {Text(<<"valid", " ">>), Text(<<"NOISE">>)}}
    \cup {[DefaultRow EXCEPT !.queue_skill = Text(<<"support">>),
                             !.duration_talk = Num(d),
                             !.record_status = Text(<<"valid", " ">>)] :
            d \in {10, 90}}

StatusTables ==
    {Table(Set(REQUIRED_COLUMNS_OP) \cup optional, r) :
        optional \in {{}, {"record_status"}},
        r \in SeqsUpTo(StatusRows, MaxRows)}

\* the tables a cost configuration is tried on: short and long contacts on
\* two queues
CostTables == {t \in StatusTables : "record_status" \notin t.columns}

\* no cost configuration; one with labor, overhead and technology costs
\* only; one with the automation parameters too
CostConfigs ==
    {None,
     EconomyConfig(Num(36), Rat(1, 10), Num(0), None, Num(0), Num(0)),
     EconomyConfig(Num(36), Rat(1, 10), Num(5), Rat(1, 10), Rat(1, 2), Rat(4, 5))}

-----------------------------------------------------------------------------
(* Construction and metric calls, as run() makes them: the calculator of   *)
(* a dimension is built over the table read, its metrics are called, and   *)
(* the calculator of the next dimension takes its place.                   *)

\* mutant of AfterCopy: no copy is taken, the calculator prepares the very
\* frame its caller holds
AfterAlias(frame, prepared) == prepared

\* df = self.df.copy(): the frame the caller holds once the calculator has
\* prepared its copy
AfterCopy(frame, prepared) == frame

_prepare_data(class, frame) ==
    CASE class = "VolumetriaMetrics"             -> Volumetria_prepare_data(frame)
      [] class = "OperationalPerformanceMetrics" -> OP_prepare_data(frame)
      [] class = "EconomyCostMetrics"            -> Economy_prepare_data(frame)
      [] class = "SatisfactionExperienceMetrics" -> Satisfaction_prepare_data(frame)

\* the metrics of a calculator
Metrics(class) ==
    CASE class = "VolumetriaMetrics" -> {"volume_by_channel", "volume_by_skill"}
      [] class = "OperationalPerformanceMetrics" ->
            {"fcr_rate", "escalation_rate", "abandonment_rate", "recurrence_rate_7d",
             "aht_distribution", "talk_hold_acw_p50_by_skill", "metrics_by_skill"}
      [] class = "EconomyCostMetrics" -> EconomyMetrics
      [] OTHER                       -> {}

\* getattr(instance, metric_name)()
CallMethod(self, metric_name) ==
    CASE metric_name = "volume_by_channel" -> Returned(volume_by_channel(self.df))
      [] metric_name = "volume_by_skill"   -> Returned(volume_by_skill(self.df))
      [] metric_name = "fcr_rate"          -> Returned(fcr_rate(self.df))
      [] metric_name = "escalation_rate"   -> Returned(escalation_rate(self.df))
      [] metric_name = "abandonment_rate"  -> Returned(abandonment_rate(self.df))
      [] metric_name = "recurrence_rate_7d" -> Returned(recurrence_rate_7d(self.df))
      [] metric_name = "aht_distribution"  -> Returned(aht_distribution(self.df))
      [] metric_name = "talk_hold_acw_p50_by_skill" ->
            Returned(talk_hold_acw_p50_by_skill(self.df))
      [] metric_name = "metrics_by_skill"  -> Returned(metrics_by_skill(self.df))
      [] metric_name = "cpi_by_skill_channel" -> cpi_by_skill_channel(self)
      [] metric_name = "annual_cost_by_skill_channel" ->
            annual_cost_by_skill_channel(self)
      [] metric_name = "cost_breakdown"    -> cost_breakdown(self)
      [] metric_name = "inefficiency_cost_by_skill_channel" ->
            inefficiency_cost_by_skill_channel(self)
      [] metric_name = "potential_savings" -> potential_savings(self)

\* instance = cls(df, **init_params): __post_init__ validates the columns
\* and prepares the data
Construct(class) ==
    LET exc      == _validate_columns(class, table.columns)
        prepared == _prepare_data(class, table)
    IN  /\ IF exc.t = "ValueError"
           THEN /\ instance' = NoInstance
                /\ call_result' = [call |-> class, outcome |-> Raised(exc)]
                /\ table' = table
           ELSE /\ instance' = [class  |-> class,
                                df     |-> prepared,
                                config |-> IF class = "EconomyCostMetrics"
                                           THEN cost_config ELSE None]
                /\ call_result' = [call |-> class, outcome |-> Returned(None)]
                /\ table' = AfterCopy(table, prepared)
        /\ UNCHANGED <<scorer_vars, pipeline_vars, cost_config>>

ConstructDimensionCalculator == \E class \in Classes : Construct(class)

CallMetric ==
    /\ instance.class # ""
    /\ \E metric_name \in Metrics(instance.class) :
          call_result' = [call |-> metric_name,
                          outcome |-> CallMethod(instance, metric_name)]
    /\ UNCHANGED <<scorer_vars, pipeline_vars, table, cost_config, instance>>

DimensionTables == VolumeTables \cup ColumnTables \cup FlagTables \cup ContactTables
                   \cup StatusTables

InitDimensions ==
    /\ ScorerIdle
    /\ NoPipeline
    /\ \/ table \in DimensionTables /\ cost_config = None
       \/ table \in CostTables /\ cost_config \in CostConfigs
    /\ instance = NoInstance
    /\ call_result = NoCall

NextDimensions ==
    \/ ConstructDimensionCalculator
    \/ CallMetric

SpecDimensions == InitDimensions /\ [][NextDimensions]_vars

-----------------------------------------------------------------------------
(* Properties of the dimension calculators, checked under SpecDimensions *)

ReturnOf(metric_name) ==
    call_result.call = metric_name /\ call_result.outcome.t = "return"

\* count(distinct interaction_id) over the table
DistinctIds == Cardinality({table.rows[i].interaction_id : i \in DOMAIN table.rows})

\* C21: over a table with the required columns, the counts volume_by_channel
\* returns add up to the number of distinct interaction_id values of the
\* table, and so do the counts volume_by_skill returns, also when one
\* interaction_id is on several rows with different channels or queues.
C21_VolumeSumsEqualDistinctIds ==
    \A m \in {"volume_by_channel", "volume_by_skill"} :
        ReturnOf(m) => PySum(call_result.outcome.v.values) = Num(DistinctIds)




\* C22: constructing a calculator over a table that lacks required columns
\* of its dimension raises a ValueError that names every one of them;
\* over a table with all the required columns the calculator is built, also
\* when the table has no optional column.
C22_ValidationNamesEveryMissingColumn ==
    \A class \in Classes :
        call_result.call = class =>
            LET absent == Set(RequiredColumns(class)) \ table.columns
            IN IF absent # {}
               THEN /\ call_result.outcome.t = "raise"
                    /\ call_result.outcome.v.t = "ValueError"
                    /\ Set(call_result.outcome.v.missing) = absent
                    /\ instance.class = ""
               ELSE /\ call_result.outcome.t = "return"
                    /\ instance.class = class

C22_Witness ==
    /\ call_result.call = "OperationalPerformanceMetrics"
    /\ call_result.outcome.t = "raise"
    /\ Len(call_result.outcome.v.missing) >= 2
    /\ table.columns \cap OptionalColumns = {}

\* the share of the table's rows whose cell of column c is set, in percent
\* with two decimals
ShareSet(c) == Pct(CountSet(table.rows, c), Len(table.rows))

\* C23: over a table that has rows, fcr_rate is the share of resolved
\* contacts when the table has is_resolved; failing that, the share of
\* contacts flagged in fcr_real_flag when the table has that column;
\* failing both, 100 minus the escalation rate.
C23_FcrThreeTierFallback ==
    (ReturnOf("fcr_rate") /\ table.rows # <<>>) =>
        call_result.outcome.v =
            IF "is_resolved" \in table.columns THEN ShareSet("is_resolved")
            ELSE IF "fcr_real_flag" \in table.columns THEN ShareSet("fcr_real_flag")
            ELSE Sub(Num(100), ShareSet("transfer_flag"))

\* C24: over a table that has rows and exactly the required columns of the
\* Operational Performance dimension, fcr_rate, abandonment_rate and
\* recurrence_rate_7d each return NaN and none of them raises.
C24_UndefinedWithoutOptionalColumns ==
    (/\ instance.class = "OperationalPerformanceMetrics"
     /\ table.columns = Set(REQUIRED_COLUMNS_OP)
     /\ table.rows # <<>>
     /\ call_result.call \in {"fcr_rate", "abandonment_rate", "recurrence_rate_7d"}) =>
        call_result.outcome = Returned(NaN)

\* C24, amended: over such a table abandonment_rate and recurrence_rate_7d
\* return NaN, fcr_rate returns 100 minus the escalation rate, the last
\* tier of its fallback, and none of the three raises.
C24_UndefinedExceptFcr ==
    (/\ instance.class = "OperationalPerformanceMetrics"
     /\ table.columns = Set(REQUIRED_COLUMNS_OP)
     /\ table.rows # <<>>
     /\ call_result.call \in {"fcr_rate", "abandonment_rate", "recurrence_rate_7d"}) =>
        call_result.outcome =
            IF call_result.call = "fcr_rate"
            THEN Returned(Sub(Num(100), ShareSet("transfer_flag")))
            ELSE Returned(NaN)

C24_Witness ==
    /\ instance.class = "OperationalPerformanceMetrics"
    /\ table.columns = Set(REQUIRED_COLUMNS_OP)
    /\ Len(table.rows) = 2
    /\ call_result = [call |-> "abandonment_rate", outcome |-> Returned(NaN)]



\* the contacts of the table that have a timestamp
TimedRows == {i \in DOMAIN table.rows : table.rows[i].datetime_start.t = "ts"}

Day(i) == table.rows[i].datetime_start.n

\* contacts i and j are of one customer on one queue, j follows i in time
\* with no contact of that customer on that queue between them, and less
\* than 7 days lie between the two
ReturnsWithinWeek(i, j) ==
    /\ i # j
    /\ table.rows[i].customer_id = table.rows[j].customer_id
    /\ table.rows[i].queue_skill = table.rows[j].queue_skill
    /\ Day(i) <= Day(j)
    /\ Day(j) - Day(i) < 7
    /\ ~\E k \in TimedRows \ {i, j} :
          /\ table.rows[k].customer_id = table.rows[i].customer_id
          /\ table.rows[k].queue_skill = table.rows[i].queue_skill
          /\ Day(i) < Day(k) /\ Day(k) < Day(j)

TimedCustomers == {table.rows[i].customer_id : i \in TimedRows}

RecurrentCustomers ==
    {c \in TimedCustomers :
        \E i, j \in TimedRows : table.rows[i].customer_id = c /\ ReturnsWithinWeek(i, j)}

\* C26: over a table that identifies customers, recurrence_rate_7d is 100
\* times the number of customers who, on some queue, have two contacts
\* consecutive in time less than 7 days apart, divided by the number of
\* customers among the contacts with a timestamp, with two decimals; a
\* customer whose contacts are on different queues is not recurrent, a gap
\* of exactly 7 days is not a recurrence, and contacts without a timestamp
\* count neither as contacts nor as customers.
C26_RecurrenceRate ==
    (/\ ReturnOf("recurrence_rate_7d")
     /\ "customer_id" \in table.columns
     /\ TimedRows # {}) =>
        call_result.outcome.v =
            Round2(Rat(100 * Cardinality(RecurrentCustomers), Cardinality(TimedCustomers)))

\* one customer back on the same queue after 6 days, and a second customer
\* with one contact
C26_Witness ==
    /\ ReturnOf("recurrence_rate_7d")
    /\ call_result.outcome.v = Num(50)
    /\ Len(table.rows) = 3
    /\ Cardinality(TimedCustomers) = 2
    /\ \E i, j \in TimedRows : Day(j) - Day(i) = 6 /\ ReturnsWithinWeek(i, j)



\* the status of a row is VALID, blanks and case aside
IsValidStatus(row) ==
    \/ "record_status" \notin table.columns
    \/ Upper(Strip(row.record_status)) = Text(<<"VALID">>)

RECURSIVE ValidRowsOf(_)
ValidRowsOf(rows) ==
    IF rows = <<>> THEN <<>>
    ELSE IF IsValidStatus(Head(rows))
         THEN <<Head(rows)>> \o ValidRowsOf(Tail(rows))
         ELSE ValidRowsOf(Tail(rows))

\* the calculator's frame had the table only its VALID rows
ValidFrame == OP_prepare_data([columns |-> table.columns, rows |-> ValidRowsOf(table.rows)])

\* the handle times of all the rows of a queue, whatever their status
HandleTimesOf(skill) ==
    LET mine == {i \in DOMAIN table.rows : Strip(table.rows[i].queue_skill) = skill}
    IN [i \in mine |-> handle_time(table.rows[i])]

\* the mean of a function's values, with two decimals
MeanOf(f) ==
    LET total[S \in SUBSET DOMAIN f] ==
            IF S = {} THEN Num(0)
            ELSE LET i == CHOOSE x \in S : TRUE IN Add(f[i], total[S \ {i}])
    IN Round2(DivInt(total[DOMAIN f], Cardinality(DOMAIN f)))

\* C25: the percentiles aht_distribution and talk_hold_acw_p50_by_skill
\* return are those of the VALID rows alone, so that rows of any other
\* status added to the table leave them as they are; aht_total of
\* metrics_by_skill is the mean over all the rows of the queue; without the
\* status column every row is valid.
C25_PercentilesOverValidRowsOnly ==
    /\ ReturnOf("aht_distribution") =>
          call_result.outcome.v = aht_distribution(ValidFrame)
    /\ ReturnOf("talk_hold_acw_p50_by_skill") =>
          call_result.outcome.v = talk_hold_acw_p50_by_skill(ValidFrame)
    /\ ReturnOf("metrics_by_skill") =>
          \A i \in DOMAIN call_result.outcome.v.items :
              LET record == call_result.outcome.v.items[i].f
              IN record.aht_total = MeanOf(HandleTimesOf(record.skill))




\* C27: a calculator of EconomyCostMetrics constructed without a cost
\* configuration raises in none of its metrics: cpi_by_skill_channel,
\* annual_cost_by_skill_channel and inefficiency_cost_by_skill_channel return
\* an empty table, cost_breakdown and potential_savings an empty mapping,
\* whatever the table it was constructed over.
C27_EmptyWithoutCostConfig ==
    (/\ instance.class = "EconomyCostMetrics"
     /\ instance.config.t = "none"
     /\ call_result.call \in EconomyMetrics) =>
        call_result.outcome =
            IF call_result.call \in {"cost_breakdown", "potential_savings"}
            THEN Returned(EmptyDict)
            ELSE Returned(EmptyFrame)

\* the empty mapping of potential_savings over a table of two contacts
C27_Witness ==
    /\ instance.class = "EconomyCostMetrics"
    /\ instance.config.t = "none"
    /\ Len(instance.df.rows) = 2
    /\ call_result = [call |-> "potential_savings", outcome |-> Returned(EmptyDict)]

\* with a configuration the same metrics have rows and entries
C27_ConfiguredWitness ==
    /\ instance.class = "EconomyCostMetrics"
    /\ instance.config.t # "none"
    /\ call_result.call = "potential_savings"
    /\ call_result.outcome.t = "return"
    /\ call_result.outcome.v # EmptyDict

\* one contact of 10 seconds at 36 per hour with 10 % overhead costs 0.11
C27_CostWitness ==
    /\ instance.class = "EconomyCostMetrics"
    /\ instance.config.t # "none"
    /\ Len(instance.df.rows) = 1
    /\ call_result.call = "cpi_by_skill_channel"
    /\ call_result.outcome.t = "return"
    /\ call_result.outcome.v.rows[1].f.cpi_total = Rat(11, 100)

-----------------------------------------------------------------------------
(* The two encodings of a sequence indicator, checked under SpecScorer *)

\* a sequence in the other encoding: a bare list with labels added, a
\* {labels, values} pair as the bare list of its values
OtherEncoding(field) ==
    IF IsList(field) THEN NewFormat(field.items)
    ELSE IF IsDict(field) /\ HasKey(field, "values") /\ IsList(field.f["values"])
    THEN field.f["values"]
    ELSE field

SequenceIndicators == {"volume_by_skill", "channel_distribution_pct"}

\* the result tree with the sequence indicators of volumetry in the other
\* encoding
Reencoded(data) ==
    IF ~HasKey(data, "volumetry") \/ ~IsDict(data.f["volumetry"]) THEN data
    ELSE LET volumetry == data.f["volumetry"]
         IN DictSet(data, "volumetry",
                Dict([k \in DOMAIN volumetry.f |->
                        IF k \in SequenceIndicators
                        THEN OtherEncoding(volumetry.f[k])
                        ELSE volumetry.f[k]]))

\* the tree compute_from_data was called on holds a sequence indicator as a
\* list or as a {labels, values} pair
HasSequence(data) == Reencoded(data) # data

\* C28: compute_from_data gives the same result (final score,
\* classification, normalized weights, and the score, computed and reason of
\* every sub-score) for a tree and for the tree that holds the same numbers
\* of volume_by_skill and channel_distribution_pct in the other encoding,
\* bare list for {labels, values} and {labels, values} for bare list.
C28_SameResultInBothEncodings ==
    (fn = "compute_from_data" /\ HasSequence(arg[1])) =>
        ret = compute_from_data(Reencoded(arg[1]))

\* a tree with both indicators in the format of the pipeline, scored
C28_Witness ==
    /\ Composite
    /\ _get_nested(arg[1], "volumetry", "volume_by_skill")
           = NewFormat(<<Num(40), Num(50)>>)
    /\ _get_nested(arg[1], "volumetry", "channel_distribution_pct")
           = NewFormat(<<Num(70), Num(30)>>)
    /\ Readiness.sub_scores.repetitividad.computed
    /\ Readiness.sub_scores.estructuracion.computed





-----------------------------------------------------------------------------
(* The scorer's callback and the tree, checked under SpecPipeline *)

\* the step of run() that invokes a scorer callback
ScorerCallbackStep ==
    /\ pc = "post_run" /\ cb_idx <= Len(post_run)
    /\ post_run[cb_idx] \in ScorerCallbacks
    /\ cb_idx' = cb_idx + 1

\* C29: a scorer callback changes the tree only by setting the top-level
\* key agentic_readiness: for every configuration, every entry the tree
\* held when the callback was invoked, the entry of every dimension
\* included, is still there afterwards with the same value, and the only
\* key the callback may add is agentic_readiness.
C29_ScorerCallbackOnlyAddsItsKey ==
    [][ScorerCallbackStep =>
          /\ \A k \in DOMAIN all_results.f :
                /\ HasKey(all_results', k)
                /\ all_results'.f[k] = all_results.f[k]
          /\ DOMAIN all_results'.f \subseteq DOMAIN all_results.f \cup {"agentic_readiness"}
      ]_vars

-----------------------------------------------------------------------------
(* The shared table, checked under SpecDimensions *)

\* the calculator of a class as a first construction over the frame builds it
Fresh(class, frame, config) ==
    [class  |-> class,
     df     |-> _prepare_data(class, frame),
     config |-> IF class = "EconomyCostMetrics" THEN config ELSE None]

=============================================================================
